---- MODULE Spec2Model ----
(***************************************************************************)
(* PyMonitor VS Code extension: the stack-recording webview                *)
(* (src/src/webview/js/stackRecording.js) as a state machine.              *)
(*                                                                         *)
(* The webview script keeps the snapshot list, the global cursor           *)
(* (currentStep), the per-line list (localSnapshots) and its cursor        *)
(* (localStep) in closure variables.  It is driven by messages posted by   *)
(* the extension (setSnapshots, updateStackTrace, updateStep,              *)
(* editorLineClick, setDbPath, debugSessionStatus) and by DOM events       *)
(* (timeline slider, Previous/Next, local slider/Prev/Next, Load State).   *)
(* Indices are 0-based as in the JavaScript; a TLA+ sequence is indexed    *)
(* at i + 1.                                                               *)
(***************************************************************************)
EXTENDS Integers, Sequences, FiniteSets, TLC

\* ------------------------------------------------------------------ bounds
MaxLen == 3
MaxLine == 2
MaxListeners == 2
MaxVars == 2
MaxValue == 2
MaxMalformed == 2
MaxCalls == 2
MaxFrames == 2
MaxPending == 2
MaxSessions == 2
MaxQueue == 4
MaxDecorations == 3
MaxTimers == 2
MaxRetries == 3
MaxTimeout == 2
MaxSockets == 2
MaxBytes == 4
MaxStartLine == 1
MaxBreakpoints == 4

\* ------------------------------------------------------------- data domain
Lines == 1..MaxLine
Ids == 1..MaxLen

RECURSIVE SortedIds(_)
SortedIds(S) ==
    IF S = {} THEN <<>>
    ELSE LET m == CHOOSE x \in S : \A y \in S : x <= y
         IN <<m>> \o SortedIds(S \ {m})

\* A frame of StackTraceResponse.frames: the fields the navigation reads
\* (line numbers are only ever compared for equality).
Snapshot(id, line) == [snapshot_id |-> id, line |-> line]

\* The snapshot sequences the API can deliver: at most MaxLen frames, every
\* frame with its own snapshot_id (a database key), in chronological order.
\* A recording starts on the first line of the function's body (line 1).
SnapshotSeqs ==
    UNION { { [i \in 1..Cardinality(S) |-> Snapshot(SortedIds(S)[i], f[i])] :
                f \in { g \in [1..Cardinality(S) -> Lines] :
                           Cardinality(S) > 0 => g[1] = 1 } } :
            S \in SUBSET Ids }

StepArgs == 0..MaxLen

\* The function calls the server knows (FunctionData.id).
Calls == 1..MaxCalls

\* Debug sessions.
Sessions == 1..MaxSessions

VARIABLES
    snapshots,        \* let snapshots = []
    currentStep,      \* let currentStep = 0
    localSnapshots,   \* let localSnapshots = []
    localStep,        \* let localStep = 0
    dbPath,           \* let dbPath = ''      (TRUE: a non-empty path is set)
    isDebugging,      \* let isDebugging = false
    listeners,        \* how many times setupEventListeners registered handlers
                      \* on the controls of the current page
    localSliderMax,   \* DOM: localTimelineSlider.max
    changeTable,      \* DOM: the table inside #variablesChangeTable
    loadedKey,        \* what the HTML of the current page was rendered from
                      \* (PageKeyOf its frames), known from its first load
    outbox,           \* messages posted to the extension by the last operation
    threw,            \* the last operation raised an uncaught exception
    lastOp            \* the last operation handled

\* The extension host (services/state.ts, utils/highlight.ts, extension.ts)
\* and what it talks to.
VARIABLES
    state,            \* the singleton of services/state.ts
    currentHighlight, \* let currentHighlight = null in utils/highlight.ts
    decorations,      \* the decoration types created and not yet disposed
    panelHtml,        \* the page the panel shows: <<"none">>, <<"functions">>
                      \* or <<"stack", functionId>>
    api,              \* per call, how many frames the server has recorded
    fetches,          \* async operations awaiting getStackTrace, oldest first
    sessions,         \* the running debug sessions
    activeDebugSession, \* vscode.debug.activeDebugSession (0: undefined)
    toWebview,        \* debugSessionStatus messages posted and not yet handled
    posted,           \* other messages posted to the webview by the last operation
    notified,         \* the notification shown by the last operation ("" if none)
    goTo,             \* the running DebuggerService.goToSnapshot call
    selection,        \* the line of the editor's cursor (editor.selection)
    selectionEvents,  \* selection changes not yet delivered to the listener
    timers            \* pending setTimeout callbacks of highlightLine

webviewVars == <<snapshots, currentStep, localSnapshots, localStep, dbPath,
                 isDebugging, listeners, localSliderMax, changeTable,
                 loadedKey, outbox, threw, lastOp>>

hostVars == <<state, currentHighlight, decorations, panelHtml, api, fetches,
              sessions, activeDebugSession, toWebview, posted, notified,
              goTo, selection, selectionEvents, timers>>

\* services/api.ts, services/liveRecording.ts and services/debugger.ts.
VARIABLES
    retry,            \* the running retryFetch call
    wait,             \* the running waitForServer call
    webServer,        \* extension.ts: webServerProcess and statusBarItem
    liveRecording,    \* the LiveRecordingService instance
    connections,      \* the net.Socket objects connectSocket has created
    wire,             \* bytes the server has written and the socket has not
                      \* yet emitted as 'data'
    received,         \* every byte emitted as 'data' on the current socket
    handled,          \* the messages passed to handleMessage on it
    lastWrite,        \* the socket the last command was written to (0: the
                      \* command was dropped)
    breakpoints,      \* vscode.debug.breakpoints: the lines of the source
                      \* breakpoints of the document, in the order added
    added             \* per function, the breakpoints debugFunction has
                      \* added since the user last removed one

apiVars == <<retry, wait, webServer>>

liveVars == <<liveRecording, connections, wire, received, handled, lastWrite>>

debuggerVars == <<breakpoints, added>>

serviceVars == <<apiVars, liveVars, debuggerVars>>

vars == <<webviewVars, hostVars, serviceVars>>

\* ------------------------------------------------------- closure state
\* The part of the state the navigation code reads and writes, as a record,
\* so that the handlers compose (a click runs every registered listener).
\* timelineValue and localValue are the DOM values of the two range inputs
\* while an event is being dispatched (a listener reads event.target.value).
Nav == [snapshots |-> snapshots, currentStep |-> currentStep,
        localSnapshots |-> localSnapshots, localStep |-> localStep,
        localSliderMax |-> localSliderMax, changeTable |-> changeTable,
        outbox |-> <<>>, threw |-> FALSE,
        timelineValue |-> 0, localValue |-> 0]

\* Assigning to a range input's value clamps it between min (0) and max.
ClampToRange(v, max) ==
    IF max < 0 \/ v < 0 THEN 0 ELSE IF v > max THEN max ELSE v

\* Array.prototype.findIndex(s => s.snapshot_id === id): 0-based, -1 if none.
FindIndexById(seq, id) ==
    IF \E i \in 1..Len(seq) : seq[i].snapshot_id = id
    THEN (CHOOSE i \in 1..Len(seq) :
            /\ seq[i].snapshot_id = id
            /\ \A j \in 1..(i-1) : seq[j].snapshot_id # id) - 1
    ELSE -1

\* Array.prototype.filter(s => s.line === line)
FilterByLine(seq, line) == SelectSeq(seq, LAMBDA s : s.line = line)

\* snapshots[i] is defined
InRange(seq, i) == 0 <= i /\ i < Len(seq)

\* requestHighlight(line): vscode.postMessage({command:'highlightLine', line})
requestHighlight(w, line) ==
    [w EXCEPT !.outbox = Append(@, [command |-> "highlightLine", line |-> line])]

\* An uncaught TypeError ends the running handler.
Throw(w) == [w EXCEPT !.threw = TRUE]

\* ------------------------------------------------- variable change table
\* The text of a table cell that shows no value: '<td>-</td>'.
Dash == 0

\* lastValues[varName] before any value of the variable was emitted.
Undefined == -1

\* The page before updateVariablesChangeTable has built a table.
NoTable == [columns |-> <<>>, rows |-> <<>>]

VarNames == 1..MaxVars
Values == 1..MaxValue

\* snapshot.locals as the list of its entries in key order; a frame without
\* the field has none.
LocalsOf(s) == IF "locals" \in DOMAIN s THEN s.locals ELSE <<>>

\* snapshot.locals[varName].value, Undefined when the variable is missing.
ValueIn(s, varName) ==
    LET l == LocalsOf(s)
    IN IF \E i \in 1..Len(l) : l[i].name = varName
       THEN l[CHOOSE i \in 1..Len(l) : l[i].name = varName].value
       ELSE Undefined

\* allVarNames.add(varName) for every key of every snapshot: the elements of
\* the Set in insertion order.
RECURSIVE AddKeys(_, _)
AddKeys(acc, l) ==
    IF l = <<>> THEN acc
    ELSE AddKeys(IF \E i \in 1..Len(acc) : acc[i] = Head(l).name
                 THEN acc ELSE Append(acc, Head(l).name),
                 Tail(l))

RECURSIVE CollectVarNames(_, _)
CollectVarNames(acc, snaps) ==
    IF snaps = <<>> THEN acc
    ELSE CollectVarNames(AddKeys(acc, LocalsOf(Head(snaps))), Tail(snaps))

\* Variant of the column order: the names as the snapshots introduce them.
SortNames_insertionOrder(names) == names

\* [...allVarNames].sort(): ascending by code unit.
SortNames(names) == SortedIds({names[i] : i \in 1..Len(names)})

\* One cell: '-' when the variable is missing, the value when it is new or
\* differs from the last one emitted, '-' when it is the same.
CellOf(s, varName, last) ==
    LET v == ValueIn(s, varName)
    IN IF v = Undefined THEN Dash
       ELSE IF last = Undefined \/ last # v THEN v
       ELSE Dash

\* The rows of the table, one per snapshot, threading lastValues.
RECURSIVE BuildRows(_, _, _)
BuildRows(snaps, varNames, lastValues) ==
    IF snaps = <<>> THEN <<>>
    ELSE LET s == Head(snaps)
             row == [c \in 1..Len(varNames) |->
                        CellOf(s, varNames[c], lastValues[varNames[c]])]
             newLast == [n \in DOMAIN lastValues |->
                            IF ValueIn(s, n) # Undefined
                               /\ \E c \in 1..Len(varNames) : varNames[c] = n
                            THEN ValueIn(s, n) ELSE lastValues[n]]
         IN <<row>> \o BuildRows(Tail(snaps), varNames, newLast)

\* updateVariablesChangeTable(): the page holds the .local-timeline element,
\* so the table container is found or created.
updateVariablesChangeTable(w) ==
    IF Len(w.localSnapshots) = 0 THEN w
    ELSE LET varNames == SortNames(CollectVarNames(<<>>, w.localSnapshots))
         IN [w EXCEPT !.changeTable =
                [columns |-> varNames,
                 rows |-> BuildRows(w.localSnapshots, varNames,
                                    [n \in VarNames |-> Undefined])]]

\* Variant of updateLocalTimeline that filters the global list in place.
updateLocalTimeline_inPlace(w, dom) ==
    IF Len(w.snapshots) = 0 \/ w.currentStep >= Len(w.snapshots) THEN w
    ELSE LET cur == w.snapshots[w.currentStep + 1]
             loc == FilterByLine(w.snapshots, cur.line)
             idx == FindIndexById(loc, cur.snapshot_id)
         IN updateVariablesChangeTable(
              [w EXCEPT !.snapshots = loc,
                        !.currentStep = idx,
                        !.localSnapshots = loc,
                        !.localStep = idx,
                        !.localSliderMax = IF dom THEN Len(loc) - 1 ELSE @,
                        !.localValue =
                            IF dom THEN ClampToRange(idx, Len(loc) - 1)
                            ELSE @])

\* Variant of updateLocalTimeline that takes the global position as the local
\* position.
updateLocalTimeline_positional(w, dom) ==
    IF Len(w.snapshots) = 0 \/ w.currentStep >= Len(w.snapshots) THEN w
    ELSE LET cur == w.snapshots[w.currentStep + 1]
             loc == FilterByLine(w.snapshots, cur.line)
             idx == IF w.currentStep < Len(loc) THEN w.currentStep
                    ELSE Len(loc) - 1
         IN updateVariablesChangeTable(
              [w EXCEPT !.localSnapshots = loc,
                        !.localStep = idx,
                        !.localSliderMax = IF dom THEN Len(loc) - 1 ELSE @,
                        !.localValue =
                            IF dom THEN ClampToRange(idx, Len(loc) - 1)
                            ELSE @])

\* updateLocalTimeline(); dom: the local-timeline element handles are set.
updateLocalTimeline(w, dom) ==
    IF Len(w.snapshots) = 0 \/ w.currentStep >= Len(w.snapshots) THEN w
    ELSE IF ~InRange(w.snapshots, w.currentStep) THEN w   \* !currentSnapshot
    ELSE LET cur == w.snapshots[w.currentStep + 1]
             loc == FilterByLine(w.snapshots, cur.line)
             idx == FindIndexById(loc, cur.snapshot_id)
         IN updateVariablesChangeTable(
              [w EXCEPT !.localSnapshots = loc,
                        !.localStep = idx,
                        !.localSliderMax = IF dom THEN Len(loc) - 1 ELSE @,
                        !.localValue =
                            IF dom THEN ClampToRange(idx, Len(loc) - 1)
                            ELSE @])

\* updateCurrentFrame(): the page always holds the #currentFrame element, so
\* an undefined snapshots[currentStep] raises at snapshot.line.
updateCurrentFrame(w, dom) ==
    IF Len(w.snapshots) = 0 THEN w
    ELSE IF ~InRange(w.snapshots, w.currentStep) THEN Throw(w)
    ELSE updateLocalTimeline(w, dom)

\* Variant of updateCurrentStepAndUI that requests the highlight of the line
\* the cursor came from.
updateCurrentStepAndUI_staleLine(w, dom, newStep) ==
    LET w1 == [w EXCEPT !.currentStep = newStep,
                        !.timelineValue = IF dom THEN newStep ELSE @]
        w2 == updateCurrentFrame(w1, dom)
    IN IF w2.threw THEN w2
       ELSE IF ~InRange(w.snapshots, w.currentStep) THEN Throw(w2)
       ELSE requestHighlight(w2, w.snapshots[w.currentStep + 1].line)

\* updateCurrentStepAndUI(newStep)
updateCurrentStepAndUI(w, dom, newStep) ==
    LET w1 == [w EXCEPT !.currentStep = newStep,
                        !.timelineValue = IF dom THEN newStep ELSE @]
        w2 == updateCurrentFrame(w1, dom)
    IN IF w2.threw THEN w2
       ELSE IF ~InRange(w2.snapshots, w2.currentStep) THEN Throw(w2)
       ELSE requestHighlight(w2, w2.snapshots[w2.currentStep + 1].line)

\* -------------------------------------------------------- DOM listeners
\* timelineSlider 'input' listener
onTimelineInput(w) ==
    LET newStep == w.timelineValue
    IN
    IF newStep # w.currentStep /\ newStep >= 0 /\ newStep < Len(w.snapshots)
    THEN updateCurrentStepAndUI(w, TRUE, newStep)
    ELSE w

\* prevButton 'click' listener
onPrevClick(w) ==
    IF w.currentStep > 0
    THEN updateCurrentStepAndUI(w, TRUE, w.currentStep - 1)
    ELSE w

\* nextButton 'click' listener
onNextClick(w) ==
    IF w.currentStep < Len(w.snapshots) - 1
    THEN updateCurrentStepAndUI(w, TRUE, w.currentStep + 1)
    ELSE w

\* Variant of the local-to-global mapping that takes the local position as
\* the global index instead of looking the snapshot up by id.
mapLocalToGlobal_positional(w) ==
    IF ~InRange(w.localSnapshots, w.localStep)
    THEN IF Len(w.snapshots) > 0 THEN Throw(w) ELSE w
    ELSE LET globalIndex == w.localStep
         IN IF globalIndex # w.currentStep
            THEN updateCurrentStepAndUI(w, TRUE, globalIndex)
            ELSE w

\* The shared tail of the three local-timeline listeners: localStep has been
\* assigned; map it to the global index by snapshot_id and go there.
mapLocalToGlobal(w) ==
    IF ~InRange(w.localSnapshots, w.localStep)
    THEN \* snapshot is undefined: findIndex's callback raises on its first
         \* call, and is never called on an empty array
         IF Len(w.snapshots) > 0 THEN Throw(w) ELSE w
    ELSE LET snapshot == w.localSnapshots[w.localStep + 1]
             globalIndex == FindIndexById(w.snapshots, snapshot.snapshot_id)
         IN IF globalIndex # -1 /\ globalIndex # w.currentStep
            THEN updateCurrentStepAndUI(w, TRUE, globalIndex)
            ELSE w

\* localTimelineSlider 'input' listener
onLocalInput(w) ==
    LET value == w.localValue
    IN
    IF value # w.localStep /\ Len(w.localSnapshots) > 0
    THEN mapLocalToGlobal([w EXCEPT !.localStep = value])
    ELSE w

\* localPrevButton 'click' listener
onLocalPrevClick(w) ==
    IF w.localStep > 0 /\ Len(w.localSnapshots) > 0
    THEN mapLocalToGlobal([w EXCEPT !.localStep = @ - 1])
    ELSE w

\* localNextButton 'click' listener
onLocalNextClick(w) ==
    IF w.localStep < Len(w.localSnapshots) - 1 /\ Len(w.localSnapshots) > 0
    THEN mapLocalToGlobal([w EXCEPT !.localStep = @ + 1])
    ELSE w

\* The goToSnapshotState message for the snapshot under the cursor.
GoToSnapshotStateMessage(w) ==
    LET snapshot == w.snapshots[w.currentStep + 1]
    IN [command |-> "goToSnapshotState",
        snapshotId |-> snapshot.snapshot_id,
        dbPath |-> dbPath,
        line |-> snapshot.line]

\* Variant of the goToStateButton listener that does not test isDebugging.
onGoToStateClick_noSessionTest(w) ==
    IF Len(w.snapshots) > 0 /\ w.currentStep < Len(w.snapshots) /\ dbPath
    THEN IF ~InRange(w.snapshots, w.currentStep) THEN Throw(w)
         ELSE [w EXCEPT !.outbox = Append(@, GoToSnapshotStateMessage(w))]
    ELSE w

\* goToStateButton 'click' listener
onGoToStateClick(w) ==
    IF Len(w.snapshots) > 0 /\ w.currentStep < Len(w.snapshots)
       /\ dbPath /\ isDebugging
    THEN IF ~InRange(w.snapshots, w.currentStep) THEN Throw(w)
         ELSE [w EXCEPT !.outbox = Append(@, GoToSnapshotStateMessage(w))]
    ELSE w

Listener(op, w) ==
    CASE op = "timelineInput" -> onTimelineInput(w)
      [] op = "prevClick" -> onPrevClick(w)
      [] op = "nextClick" -> onNextClick(w)
      [] op = "localInput" -> onLocalInput(w)
      [] op = "localPrevClick" -> onLocalPrevClick(w)
      [] op = "localNextClick" -> onLocalNextClick(w)
      [] op = "goToStateClick" -> onGoToStateClick(w)

\* One DOM event runs every listener that addEventListener registered on the
\* element, in order; an exception in one does not stop the next.
RECURSIVE Dispatch(_, _, _)
Dispatch(op, w, k) ==
    IF k = 0 THEN w
    ELSE LET r == Listener(op, [w EXCEPT !.threw = FALSE])
         IN Dispatch(op, [r EXCEPT !.threw = w.threw \/ r.threw], k - 1)

\* Write a closure state back to the variables.
Commit(w, op) ==
    /\ snapshots' = w.snapshots
    /\ currentStep' = w.currentStep
    /\ localSnapshots' = w.localSnapshots
    /\ localStep' = w.localStep
    /\ localSliderMax' = w.localSliderMax
    /\ changeTable' = w.changeTable
    /\ outbox' = w.outbox
    /\ threw' = w.threw
    /\ lastOp' = op
    /\ UNCHANGED <<hostVars, serviceVars>>

\* The user acts on a control: w is the closure state with the control's
\* DOM value as the user left it.  The guards of the listeners decide what
\* an event does; the disabled attribute the page keeps on the buttons is
\* not modelled, so a click may also arrive where the button is greyed out.
DomEvent(op, w) ==
    /\ Commit(Dispatch(op, w, listeners), op)
    /\ UNCHANGED <<dbPath, isDebugging, listeners, loadedKey>>

\* A range input reports a value between its min (0) and its max.
SliderValues(max) == 0..(IF max < 0 THEN 0 ELSE max)

TimelineSliderInput(v) ==
    DomEvent("timelineInput", [Nav EXCEPT !.timelineValue = v])
PrevClick == DomEvent("prevClick", Nav)
NextClick == DomEvent("nextClick", Nav)
LocalSliderInput(v) ==
    /\ v \in SliderValues(localSliderMax)
    /\ DomEvent("localInput", [Nav EXCEPT !.localValue = v])
LocalPrevClick == DomEvent("localPrevClick", Nav)
LocalNextClick == DomEvent("localNextClick", Nav)
GoToStateClick == DomEvent("goToStateClick", Nav)

\* ----------------------------------------------------- message handlers
\* Variant of 'setSnapshots' that ignores an empty array.
handleSetSnapshots_ignoreEmpty(w, seq) ==
    IF Len(seq) = 0 THEN w
    ELSE LET w1 == [w EXCEPT !.snapshots = seq, !.currentStep = 0]
             w2 == updateCurrentFrame(w1, TRUE)
         IN IF w2.threw THEN w2 ELSE requestHighlight(w2, w2.snapshots[1].line)

\* Variant of 'setSnapshots' that keeps the cursor where it was.
handleSetSnapshots_keepStep(w, seq) ==
    LET w1 == [w EXCEPT !.snapshots = seq]
        w2 == updateCurrentFrame(w1, TRUE)
    IN IF w2.threw THEN w2
       ELSE IF Len(w2.snapshots) > 0
            THEN requestHighlight(w2, w2.snapshots[1].line)
            ELSE w2

\* case 'setSnapshots'
handleSetSnapshots(w, seq) ==
    LET w1 == [w EXCEPT !.snapshots = seq, !.currentStep = 0]
        w2 == updateCurrentFrame(w1, TRUE)
    IN IF w2.threw THEN w2
       ELSE IF Len(w2.snapshots) > 0
            THEN requestHighlight(w2, w2.snapshots[1].line)
            ELSE w2

\* Variant of 'updateStackTrace' that never follows the latest frame.
handleUpdateStackTrace_noFollow(w, dom, seq) ==
    IF Len(seq) > 0
    THEN LET w1 == [w EXCEPT !.snapshots = seq]
             w3 == updateCurrentFrame(w1, dom)
         IN IF w3.threw THEN w3
            ELSE IF w3.currentStep < Len(w3.snapshots)
                 THEN requestHighlight(w3, w3.snapshots[w3.currentStep + 1].line)
                 ELSE w3
    ELSE w

\* Variant of 'updateStackTrace' that also takes an empty sequence.
handleUpdateStackTrace_acceptEmpty(w, dom, seq) ==
    LET previousLength == Len(w.snapshots)
        w1 == [w EXCEPT !.snapshots = seq]
        w2 == IF Len(seq) > previousLength
              THEN [w1 EXCEPT !.currentStep = Len(seq) - 1]
              ELSE w1
        w3 == updateCurrentFrame(w2, dom)
        w4 == updateVariablesChangeTable(updateLocalTimeline(w3, dom))
    IN IF w3.threw THEN w3
       ELSE IF InRange(w4.snapshots, w4.currentStep)
            THEN requestHighlight(w4, w4.snapshots[w4.currentStep + 1].line)
            ELSE w4

\* case 'updateStackTrace'
handleUpdateStackTrace(w, dom, seq) ==
    IF Len(seq) > 0
    THEN LET previousLength == Len(w.snapshots)
             w1 == [w EXCEPT !.snapshots = seq]
             w2 == IF Len(seq) > previousLength
                   THEN [w1 EXCEPT !.currentStep = Len(seq) - 1]
                   ELSE w1
             w3 == updateCurrentFrame(w2, dom)
             w4 == updateVariablesChangeTable(updateLocalTimeline(w3, dom))
         IN IF w3.threw THEN w3
            ELSE IF w4.currentStep < Len(w4.snapshots)
                 THEN IF ~InRange(w4.snapshots, w4.currentStep) THEN Throw(w4)
                      ELSE requestHighlight(w4,
                               w4.snapshots[w4.currentStep + 1].line)
                 ELSE w4
    ELSE w

\* case 'updateStep'
handleUpdateStep(w, dom, step) == updateCurrentStepAndUI(w, dom, step)

\* Variant of 'editorLineClick' that goes to the last snapshot of the line.
handleEditorLineClick_last(w, dom, line) ==
    LET matchingSnapshots == FilterByLine(w.snapshots, line)
    IN IF Len(matchingSnapshots) > 0
       THEN LET lastSnapshot == matchingSnapshots[Len(matchingSnapshots)]
                snapshotIndex ==
                    FindIndexById(w.snapshots, lastSnapshot.snapshot_id)
            IN updateCurrentStepAndUI(w, dom, snapshotIndex)
       ELSE w

\* case 'editorLineClick'
handleEditorLineClick(w, dom, line) ==
    LET matchingSnapshots == FilterByLine(w.snapshots, line)
    IN IF Len(matchingSnapshots) > 0
       THEN LET firstSnapshot == matchingSnapshots[1]
                snapshotIndex ==
                    FindIndexById(w.snapshots, firstSnapshot.snapshot_id)
            IN IF snapshotIndex # -1
               THEN updateCurrentStepAndUI(w, dom, snapshotIndex)
               ELSE w
       ELSE w

\* ------------------------------------------------------ extension state
\* null: a handle that references no decoration, a session that is not there.
Null == 0

\* state.currentStackTraceData === null
NullData == [function |-> Null, frames |-> <<>>]

\* The StackTraceResponse of call f when the server has recorded n frames.
StackTrace(f, n) ==
    [function |-> f,
     frames |-> [i \in 1..n |-> Snapshot(i, ((i - 1) % MaxLine) + 1)]]

\* state.currentFunctionData === undefined; FunctionData[] otherwise.
NoFunctions == [defined |-> FALSE, calls |-> {}]
Functions(calls) == [defined |-> TRUE, calls |-> calls]

\* What the panel's webview.html was last set to.
NoPage == [view |-> "none", functionId |-> Null]
FunctionsPage == [view |-> "functions", functionId |-> Null]
StackPage(f) == [view |-> "stack", functionId |-> f]

\* No goToSnapshot call is running.
GoToIdle == [pc |-> "idle", result |-> FALSE, before |-> NullData,
             viewBefore |-> FALSE]

\* The part of the host state the handlers of highlight.ts and webview.ts
\* read and write, as a record, so that the handlers compose.
Host == [state |-> state, currentHighlight |-> currentHighlight,
         decorations |-> decorations, panelHtml |-> panelHtml,
         selection |-> selection,
         selectionEvents |-> selectionEvents, timers |-> timers,
         toWebview |-> toWebview, isDebugging |-> isDebugging,
         posted |-> <<>>, notified |-> ""]

\* Write a host state back to the variables.
CommitHost(h, op) ==
    /\ state' = h.state
    /\ currentHighlight' = h.currentHighlight
    /\ decorations' = h.decorations
    /\ panelHtml' = h.panelHtml
    /\ selection' = h.selection
    /\ selectionEvents' = h.selectionEvents
    /\ timers' = h.timers
    /\ toWebview' = h.toWebview
    /\ isDebugging' = h.isDebugging
    /\ posted' = h.posted
    /\ notified' = h.notified
    /\ lastOp' = op
    /\ UNCHANGED <<snapshots, currentStep, localSnapshots, localStep, dbPath,
                   listeners, localSliderMax, changeTable, loadedKey, outbox,
                   threw>>
    /\ UNCHANGED serviceVars

\* webview.postMessage(message)
Post(h, message) == [h EXCEPT !.posted = Append(@, message)]

\* webview.postMessage({command: 'debugSessionStatus', isDebugging})
PostStatus(h, b) == [h EXCEPT !.toWebview = Append(@, b)]

\* vscode.window.showErrorMessage / showInformationMessage
Notify(h, kind) == [h EXCEPT !.notified = kind]

\* ------------------------------------------------------ utils/highlight.ts
\* vscode.window.createTextEditorDecorationType: an object distinct from
\* every decoration that is live or still referenced.
NewDecoration(h) ==
    CHOOSE d \in 1..MaxDecorations :
        /\ d \notin h.decorations \cup {h.currentHighlight, h.state.currentHighlight}
        /\ \A e \in 1..(d - 1) :
               e \in h.decorations \cup {h.currentHighlight, h.state.currentHighlight}

\* The bounds leave room for one more highlightLine.
CanHighlight(h) ==
    /\ \E d \in 1..MaxDecorations :
           d \notin h.decorations \cup {h.currentHighlight, h.state.currentHighlight}
    /\ h.timers < MaxTimers

\* editor.selection = the start of `line`: the editor reports a selection
\* change when the cursor was elsewhere.  Behind a pending change, a
\* highlightLine that moved nothing leaves Null in the queue, so that the
\* queue tells which setTimeout callbacks are still ahead of their change.
SelectionChanged(h, line) ==
    IF h.selection # line THEN Append(h.selectionEvents, line)
    ELSE IF h.selectionEvents = <<>> THEN <<>>
    ELSE Append(h.selectionEvents, Null)

\* The queue of selection changes without the leading highlightLine calls
\* that changed nothing.
RECURSIVE Pending(_)
Pending(events) ==
    IF events # <<>> /\ Head(events) = Null THEN Pending(Tail(events))
    ELSE events

\* decoration.dispose()
Dispose(h, d) == [h EXCEPT !.decorations = @ \ {d}]

\* Variant of highlightLine that leaves the previous decoration in place.
highlightLine_noDispose(h, line) ==
    LET d == NewDecoration(h)
    IN [h EXCEPT !.decorations = @ \cup {d},
                 !.state.isProgrammaticSelectionChange = TRUE,
                 !.selection = line,
                 !.selectionEvents = SelectionChanged(h, line),
                 !.timers = @ + 1,
                 !.currentHighlight = d,
                 !.state.currentHighlight = d]

\* highlightLine(editor, line): editor.selection = ... queues a selection
\* change for the listener when it moves the cursor, setTimeout queues the
\* reset of the flag.
highlightLine(h, line) ==
    LET h1 == IF h.currentHighlight # Null
              THEN [Dispose(h, h.currentHighlight) EXCEPT !.currentHighlight = Null]
              ELSE h
        d == NewDecoration(h1)
    IN [h1 EXCEPT !.decorations = @ \cup {d},
                  !.state.isProgrammaticSelectionChange = TRUE,
                  !.selection = line,
                 !.selectionEvents = SelectionChanged(h, line),
                  !.timers = @ + 1,
                  !.currentHighlight = d,
                  !.state.currentHighlight = d]

\* clearHighlight()
clearHighlight(h) ==
    LET h1 == IF h.currentHighlight # Null
              THEN [Dispose(h, h.currentHighlight) EXCEPT !.currentHighlight = Null]
              ELSE h
    IN IF h1.state.currentHighlight # Null
       THEN [Dispose(h1, h1.state.currentHighlight)
               EXCEPT !.state.currentHighlight = Null]
       ELSE h1

\* ------------------------------------------------------ services/webview.ts
\* updateFunctionDetailsPanel(functions, context)
updateFunctionDetailsPanel(h) ==
    IF ~h.state.functionDetailsPanel THEN h
    ELSE [h EXCEPT !.state.isInStackTraceView = FALSE,
                   !.panelHtml = FunctionsPage]

\* showFunctionDetails(functions, context): the code lens command.
showFunctionDetails(h, functions) ==
    LET h1 == [h EXCEPT !.state.currentFunctionData = functions]
    IN IF h1.state.functionDetailsPanel
       THEN updateFunctionDetailsPanel(h1)
       ELSE updateFunctionDetailsPanel(
                [h1 EXCEPT !.state.functionDetailsPanel = TRUE])

\* onDidDispose
onDidDispose(h) ==
    clearHighlight([h EXCEPT !.state.functionDetailsPanel = FALSE,
                             !.state.isInStackTraceView = FALSE,
                             !.panelHtml = NoPage,
                             !.toWebview = <<>>])

\* onDidReceiveMessage, message.command === 'backToFunctions'
onBackToFunctions(h) ==
    LET h1 == [clearHighlight(h) EXCEPT !.state.isInStackTraceView = FALSE]
    IN IF h1.state.currentFunctionData.defined
       THEN updateFunctionDetailsPanel(h1) ELSE h1

\* onDidReceiveMessage, message.command === 'highlightLine'
onHighlightLine(h, line) == highlightLine(h, line)

\* --------------------------------------------------- data loads in flight
\* An async function suspended at `await getStackTrace(functionId)` or
\* `await getFunctionData(filePath)`: which function, for which call, what
\* the server answered (n frames; for function data the known calls), and
\* whether a load of the same call that started later has already stored
\* its answer.
Fetch(op, f) ==
    [op |-> op, functionId |-> f, status |-> "pending", n |-> 0,
     overtaken |-> FALSE]

StackTraceOps == {"explore", "reload", "refresh", "refreshCommand"}
FunctionDataOps == {"tryOpen", "reloadFunctions"}

\* The answer of getStackTrace as the continuation sees it.
ResponseOf(fetch) == StackTrace(fetch.functionId, fetch.n)

RemoveAt(seq, k) == [i \in 1..(Len(seq) - 1) |-> IF i < k THEN seq[i] ELSE seq[i + 1]]

\* The loads of call f that started before the one at position k.
MarkOvertaken(seq, k, f) ==
    [i \in 1..Len(seq) |->
        IF i < k /\ seq[i].functionId = f /\ seq[i].op \in StackTraceOps
        THEN [seq[i] EXCEPT !.overtaken = TRUE] ELSE seq[i]]

\* exploreStackTrace once it has data: store it, enter the view, render the
\* page, post the data and the session status, highlight the first line.
showStackTrace(h, fetch) ==
    LET data == ResponseOf(fetch)
        h1 == [h EXCEPT !.state.currentStackTraceData = data,
                        !.state.currentStep = 0,
                        !.state.isInStackTraceView = TRUE]
    IN IF ~h1.state.functionDetailsPanel THEN Notify(h1, "error")
       ELSE LET h2 == [h1 EXCEPT !.panelHtml = StackPage(fetch.functionId),
                                 !.isDebugging = FALSE]
                h3 == Post(Post(Post(h2,
                          [command |-> "updateStackTrace", data |-> data]),
                          [command |-> "setSnapshots", data |-> data]),
                          [command |-> "setDbPath", data |-> data])
                h4 == PostStatus(h3, activeDebugSession # Null)
            IN IF Len(data.frames) > 0
               THEN highlightLine(h4, data.frames[1].line) ELSE h4

\* Variant of exploreStackTrace that enters the view before it has data.
exploreStackTrace_viewFirst(h, fetch) ==
    IF fetch.status = "failed"
    THEN Notify([h EXCEPT !.state.isInStackTraceView = TRUE], "error")
    ELSE showStackTrace(h, fetch)

\* exploreStackTrace, from `const data = await getStackTrace(functionId)` on.
exploreStackTrace(h, fetch) ==
    IF fetch.status = "failed" THEN Notify(h, "error")
    ELSE showStackTrace(h, fetch)

\* reloadStackRecordingData and updateStackRecordingIfDebugging, from
\* `const freshData = await getStackTrace(functionId)` on: the two differ in
\* the notifications (notice) only.
storeFresh(h, fetch, notice) ==
    IF fetch.status = "failed" THEN Notify(h, IF notice THEN "error" ELSE "")
    ELSE LET data == ResponseOf(fetch)
             h1 == [h EXCEPT !.state.currentStackTraceData = data]
         IN IF h1.state.functionDetailsPanel
            THEN Notify(Post(h1, [command |-> "updateStackTrace", data |-> data]),
                        IF notice THEN "info" ELSE "")
            ELSE h1

\* command pymonitor.refreshStackRecording, from the await on: postMessage on
\* a panel that is gone throws into the catch.
refreshStackRecording(h, fetch) ==
    IF fetch.status = "failed" THEN h
    ELSE LET data == ResponseOf(fetch)
             h1 == [h EXCEPT !.state.currentStackTraceData = data]
         IN IF h1.state.functionDetailsPanel
            THEN Post(h1, [command |-> "updateStackTrace", data |-> data])
            ELSE h1

\* reloadFunctionData, from `await getFunctionData(filePath)` on.
reloadFunctionData(h, fetch) ==
    IF fetch.status = "failed" THEN Notify(h, "error")
    ELSE LET functions == Functions(IF fetch.status = "empty" THEN {} ELSE Calls)
             h1 == [h EXCEPT !.state.functionDataCache = functions,
                             !.state.currentFunctionData = functions]
         IN IF ~h1.state.functionDetailsPanel THEN h1
            ELSE updateFunctionDetailsPanel(
                     IF h1.state.isInStackTraceView
                     THEN clearHighlight([h1 EXCEPT !.state.isInStackTraceView = FALSE])
                     ELSE h1)

\* tryOpenStackRecordingForActiveFunction, from the await up to the command.
tryOpenStackRecording(h, fetch) ==
    IF fetch.status \in {"failed", "empty"} THEN h
    ELSE [h EXCEPT !.state.currentFunctionData = Functions(Calls),
                   !.state.functionDataCache = Functions(Calls)]

\* The continuation of the load.
Continue(h, fetch) ==
    CASE fetch.op = "explore" -> exploreStackTrace(h, fetch)
      [] fetch.op = "reload" -> storeFresh(h, fetch, TRUE)
      [] fetch.op = "refresh" -> storeFresh(h, fetch, FALSE)
      [] fetch.op = "refreshCommand" -> refreshStackRecording(h, fetch)
      [] fetch.op = "reloadFunctions" -> reloadFunctionData(h, fetch)
      [] fetch.op = "tryOpen" -> tryOpenStackRecording(h, fetch)

\* The guard of updateStackRecordingIfDebugging (all sessions are Python).
ShouldRefresh(h, active) ==
    /\ active # Null
    /\ h.state.isInStackTraceView
    /\ h.state.currentStackTraceData # NullData
    /\ h.state.functionDetailsPanel

\* updateStackRecordingIfDebugging up to its first await.
WithRefresh(seq, h, active) ==
    IF ShouldRefresh(h, active)
    THEN Append(seq, Fetch("refresh", h.state.currentStackTraceData.function))
    ELSE seq

\* ---------------------------------------------------------------- actions
\* The data the page template of exploreStackTrace interpolates from the
\* frames: frames.length and frames[0].  Two recordings that agree on it
\* (and on the function) render to the same HTML string.
PageKeyOf(seq) == IF Len(seq) > 0 THEN <<Len(seq), seq[1]>> ELSE <<0>>

\* exploreStackTrace assigns panel.webview.html with a string that differs
\* from the page's: the page is rebuilt and the script starts again with its
\* initial closure state.
SetHtml ==
    /\ snapshots' = <<>>
    /\ currentStep' = 0
    /\ localSnapshots' = <<>>
    /\ localStep' = 0
    /\ dbPath' = FALSE
    /\ isDebugging' = FALSE
    /\ listeners' = 0
    /\ loadedKey' = <<>>
    /\ localSliderMax' = 0
    /\ changeTable' = NoTable
    /\ outbox' = <<>>
    /\ threw' = FALSE
    /\ lastOp' = "setHtml"
    /\ UNCHANGED <<hostVars, serviceVars>>

\* exploreStackTrace posts setSnapshots with the frames it rendered the HTML
\* from.  On a page that has already handled a load this happens only when
\* the assignment to webview.html left the page in place, i.e. the new HTML
\* equals the page's.  The handler calls initializeEventListeners, which
\* registers one more set of listeners on the page's controls.
SetSnapshots(seq) ==
    /\ listeners < MaxListeners
    /\ listeners > 0 => PageKeyOf(seq) = loadedKey
    /\ listeners' = listeners + 1
    /\ Commit(handleSetSnapshots(Nav, seq), "setSnapshots")
    /\ loadedKey' = PageKeyOf(seq)
    /\ UNCHANGED <<dbPath, isDebugging>>

\* exploreStackTrace and every refresh post updateStackTrace.
UpdateStackTrace(seq) ==
    /\ Commit(handleUpdateStackTrace(Nav, listeners > 0, seq),
              "updateStackTrace")
    /\ UNCHANGED <<dbPath, isDebugging, listeners, loadedKey>>

UpdateStep(step) ==
    /\ Commit(handleUpdateStep(Nav, listeners > 0, step), "updateStep")
    /\ UNCHANGED <<dbPath, isDebugging, listeners, loadedKey>>

EditorLineClick(line) ==
    /\ Commit(handleEditorLineClick(Nav, listeners > 0, line),
              "editorLineClick")
    /\ UNCHANGED <<dbPath, isDebugging, listeners, loadedKey>>

\* case 'setDbPath'
SetDbPath ==
    /\ dbPath' = TRUE
    /\ Commit(Nav, "setDbPath")
    /\ UNCHANGED <<isDebugging, listeners, loadedKey>>

\* case 'debugSessionStatus'
DebugSessionStatus(b) ==
    /\ isDebugging' = b
    /\ Commit(Nav, "debugSessionStatus")
    /\ UNCHANGED <<dbPath, listeners, loadedKey>>

\* The page before any message: the closure variables as declared.
InitWebview ==
    /\ snapshots = <<>>
    /\ currentStep = 0
    /\ localSnapshots = <<>>
    /\ localStep = 0
    /\ dbPath = FALSE
    /\ isDebugging = FALSE
    /\ listeners = 0
    /\ loadedKey = <<>>
    /\ localSliderMax = 0
    /\ changeTable = NoTable
    /\ outbox = <<>>
    /\ threw = FALSE
    /\ lastOp = "setHtml"

\* --------------------------------------------------------- services/api.ts
\* An error thrown inside retryFetch: the attempt that raised it (0: none)
\* and what it is ("httpError": the Error thrown for !response.ok,
\* "networkError": the rejection of fetch, "maxRetries": the Error after
\* the loop).
Error(attempt, kind) == [attempt |-> attempt, kind |-> kind]

NoError == Error(0, "none")

\* retryFetch is not running.  history lists the outcome of every fetch of
\* the call; response is the attempt whose Response was returned.
RetryIdle ==
    [pc |-> "idle", maxRetries |-> 0, i |-> 0, history |-> <<>>,
     outcome |-> "none", response |-> 0, error |-> NoError]

\* waitForServer is not running.  elapsed is Date.now() - startTime in units
\* of 100 ms, probes lists the outcome of every probe of the call.
WaitIdle ==
    [pc |-> "idle", caller |-> "none", timeout |-> 0, elapsed |-> 0,
     probes |-> <<>>, result |-> FALSE]

\* ------------------------------------------------ services/liveRecording.ts
\* The sockets connectSocket can create, in the order of their creation.
Sockets == 1..MaxSockets

\* A net.Socket: "unused" (not created yet), "connecting", "open",
\* "closing" (destroyed or ended, its 'close' event not yet emitted) or
\* "closed".  timer: the 5 s setTimeout of its connectSocket is pending.
\* resolved: what the promise of its connectSocket resolved with.
\* continued: startLiveRecording has gone on after the connection.
NoSocket ==
    [state |-> "unused", timer |-> FALSE, resolved |-> "pending",
     continued |-> FALSE]

\* The bytes of the stream: an ASCII character, the newline, and the two
\* bytes of a two-byte UTF-8 character.
Bytes == {"a", "LF", "C3", "A9"}

\* ---------------------------------------------------- services/debugger.ts
\* functionInfo.range.start.line of the functions of the document: the
\* zero-based lines of their def.
StartLines == 0..MaxStartLine

\* const state: State = {...}, before activate() has run any handler.
InitHost ==
    /\ state = [functionDetailsPanel |-> FALSE,
                isInStackTraceView |-> FALSE,
                currentStackTraceData |-> NullData,
                currentFunctionData |-> NoFunctions,
                functionDataCache |-> NoFunctions,
                currentHighlight |-> Null,
                currentStep |-> 0,
                isProgrammaticSelectionChange |-> FALSE]
    /\ currentHighlight = Null
    /\ decorations = {}
    /\ panelHtml = NoPage
    /\ api = [f \in Calls |-> 0]
    /\ fetches = <<>>
    /\ sessions = {}
    /\ activeDebugSession = Null
    /\ toWebview = <<>>
    /\ posted = <<>>
    /\ notified = ""
    /\ goTo = GoToIdle
    /\ selection = Null
    /\ selectionEvents = <<>>
    /\ timers = 0

\* No call of the services is running.
InitServices ==
    /\ retry = RetryIdle
    /\ wait = WaitIdle
    /\ webServer = [webServerProcess |-> FALSE, statusBarItem |-> ""]
    /\ liveRecording = [socket |-> Null, messageBuffer |-> <<>>,
                        statusBarItem |-> "off", serverProcess |-> FALSE,
                        documentSaveListener |-> FALSE]
    /\ connections = [s \in Sockets |-> NoSocket]
    /\ wire = <<>>
    /\ received = <<>>
    /\ handled = <<>>
    /\ lastWrite = Null
    /\ breakpoints = <<>>
    /\ added = [line \in StartLines |-> 0]

Init == InitWebview /\ InitHost /\ InitServices

\* Navigation: the messages and DOM events that read or write the cursors.
Next ==
    \/ SetHtml
    \/ \E seq \in SnapshotSeqs : SetSnapshots(seq)
    \/ \E seq \in SnapshotSeqs : UpdateStackTrace(seq)
    \/ \E step \in StepArgs : UpdateStep(step)
    \/ \E line \in Lines : EditorLineClick(line)
    \/ \E v \in StepArgs : TimelineSliderInput(v)
    \/ PrevClick
    \/ NextClick
    \/ \E v \in StepArgs : LocalSliderInput(v)
    \/ LocalPrevClick
    \/ LocalNextClick

Spec == Init /\ [][Next]_vars

\* The global timeline together with the debugger state-sync controls. The
\* local timeline and the editor clicks reach currentStep only through
\* updateCurrentStepAndUI, with steps the slider reaches as well.
NextSync ==
    \/ SetHtml
    \/ \E seq \in SnapshotSeqs : SetSnapshots(seq)
    \/ \E seq \in SnapshotSeqs : UpdateStackTrace(seq)
    \/ \E step \in StepArgs : UpdateStep(step)
    \/ \E v \in StepArgs : TimelineSliderInput(v)
    \/ PrevClick
    \/ NextClick
    \/ SetDbPath
    \/ \E b \in BOOLEAN : DebugSessionStatus(b)
    \/ GoToStateClick

SpecSync == Init /\ [][NextSync]_vars

\* ------------------------------------------- frames that carry locals
\* snapshot.locals: the entries of the object in key order, each variable at
\* most once.
LocalsObjects ==
    UNION { { l \in [1..n -> [name : VarNames, value : Values]] :
                \A i, j \in 1..n : l[i].name = l[j].name => i = j } :
            n \in 0..MaxVars }

\* The frames of one line: the nav fields, and locals or no locals field.
FramesWithLocals(id) ==
    {Snapshot(id, 1)}
      \cup {[snapshot_id |-> id, line |-> 1, locals |-> l] : l \in LocalsObjects}

\* Recordings whose frames all lie on line 1, so that the local timeline of
\* a load is the whole recording.
TableSeqs ==
    UNION { { s \in [1..n -> UNION {FramesWithLocals(id) : id \in 1..n}] :
                \A i \in 1..n : s[i].snapshot_id = i } :
            n \in 0..MaxLen }

\* The loads that build the variable change table.
NextTable == \E seq \in TableSeqs : SetSnapshots(seq)

SpecTable == Init /\ [][NextTable]_vars

\* --------------------------------- frames that lack their line or their id
\* A frame as the API may deliver it: reading a field the frame lacks gives
\* undefined, and undefined === undefined holds in filter and findIndex.
MalformedFrames(id) ==
    UNION { { [snapshot_id |-> i, line |-> l],
              [snapshot_id |-> i, line |-> l,
               locals |-> <<[name |-> 1, value |-> 1]>>] } :
            i \in {id, Undefined}, l \in Lines \cup {Undefined} }

\* Recordings in which any frame may lack its line or its id; the ids that
\* are present are distinct.
MalformedSeqs ==
    UNION { { s \in [1..n -> UNION {MalformedFrames(id) : id \in 1..n}] :
                \A i \in 1..n : s[i].snapshot_id \in {i, Undefined} } :
            n \in 1..MaxMalformed }

\* Loads of such recordings, and navigation over them.
NextMalformed ==
    \/ SetHtml
    \/ \E seq \in MalformedSeqs : SetSnapshots(seq)
    \/ \E line \in Lines : EditorLineClick(line)
    \/ PrevClick
    \/ NextClick
    \/ LocalPrevClick
    \/ LocalNextClick

SpecMalformed == Init /\ [][NextMalformed]_vars

\* ------------------------------------- the extension's side of Load State
\* The call DebuggerService.goToSnapshot(snapshotId, dbPath), or no call.
NoCall == [called |-> FALSE]
GoToSnapshotCall(snapshotId, path) ==
    [called |-> TRUE, snapshotId |-> snapshotId, dbPath |-> path]

\* command pymonitor.goToSnapshotState
goToSnapshotStateCommand(snapshotId, path) ==
    IF snapshotId = Undefined \/ ~path THEN NoCall
    ELSE GoToSnapshotCall(snapshotId, path)

\* onDidReceiveMessage, message.command === 'goToSnapshotState'
onGoToSnapshotState(message) ==
    IF message.snapshotId # Undefined /\ message.dbPath
    THEN goToSnapshotStateCommand(message.snapshotId, message.dbPath)
    ELSE NoCall

\* ------------------------------------------------- extension host actions
\* The code lens command pymonitor.showFunctionDetails.
ShowFunctionDetails ==
    /\ CommitHost(showFunctionDetails(Host, Functions(Calls)), "showFunctionDetails")
    /\ UNCHANGED <<api, fetches, sessions, activeDebugSession, goTo>>

\* The user closes the panel.
DisposePanel ==
    /\ state.functionDetailsPanel
    /\ CommitHost(onDidDispose(Host), "dispose")
    /\ UNCHANGED <<api, fetches, sessions, activeDebugSession, goTo>>

\* The functions page posts exploreStackTrace for a call's button.
ExploreRequested(f) ==
    /\ panelHtml = FunctionsPage
    /\ Len(fetches) < MaxPending
    /\ fetches' = Append(fetches, Fetch("explore", f))
    /\ CommitHost(Host, "exploreRequested")
    /\ UNCHANGED <<api, sessions, activeDebugSession, goTo>>

\* The debugger stops at a breakpoint: the 'stopped' listener calls
\* tryOpenStackRecordingForActiveFunction.
ThreadStopped ==
    /\ activeDebugSession # Null
    /\ ~state.isInStackTraceView
    /\ Len(fetches) < MaxPending
    /\ fetches' = Append(fetches, Fetch("tryOpen", Null))
    /\ CommitHost(Host, "threadStopped")
    /\ UNCHANGED <<api, sessions, activeDebugSession, goTo>>

\* The stack page posts backToFunctions.
BackToFunctions ==
    /\ panelHtml.view = "stack"
    /\ CommitHost(onBackToFunctions(Host), "backToFunctions")
    /\ UNCHANGED <<api, fetches, sessions, activeDebugSession, goTo>>

\* The stack page posts highlightLine (requestHighlight).
HighlightLineMessage(line) ==
    /\ panelHtml.view = "stack"
    /\ CanHighlight(Host)
    /\ CommitHost(onHighlightLine(Host, line), "highlightLine")
    /\ UNCHANGED <<api, fetches, sessions, activeDebugSession, goTo>>

\* The stack page posts reloadStackRecording: reloadStackRecordingData up to
\* its await.
ReloadStackRecording ==
    /\ panelHtml.view = "stack"
    /\ state.functionDetailsPanel
    /\ state.currentStackTraceData # NullData
    /\ Len(fetches) < MaxPending
    /\ fetches' = Append(fetches,
                         Fetch("reload", state.currentStackTraceData.function))
    /\ CommitHost(Host, "reloadRequested")
    /\ UNCHANGED <<api, sessions, activeDebugSession, goTo>>

\* A page posts reloadFunctionData.
ReloadFunctionData ==
    /\ state.functionDetailsPanel
    /\ Len(fetches) < MaxPending
    /\ fetches' = Append(fetches, Fetch("reloadFunctions", Null))
    /\ CommitHost(Host, "reloadFunctionsRequested")
    /\ UNCHANGED <<api, sessions, activeDebugSession, goTo>>

\* A DAP stackTrace message, a breakpoint change or a step event calls
\* updateStackRecordingIfDebugging, which passes its guards.
DebugActivity ==
    /\ ShouldRefresh(Host, activeDebugSession)
    /\ Len(fetches) < MaxPending
    /\ fetches' = WithRefresh(fetches, Host, activeDebugSession)
    /\ CommitHost(Host, "refreshRequested")
    /\ UNCHANGED <<api, sessions, activeDebugSession, goTo>>

\* command pymonitor.refreshStackRecording(functionId)
RefreshStackRecordingCommand(f) ==
    /\ state.functionDetailsPanel
    /\ Len(fetches) < MaxPending
    /\ fetches' = Append(fetches, Fetch("refreshCommand", f))
    /\ CommitHost(Host, "refreshCommand")
    /\ UNCHANGED <<api, sessions, activeDebugSession, goTo>>

\* The monitored program records one more snapshot of call f.
RecordSnapshot(f) ==
    /\ api[f] < MaxFrames
    /\ api' = [api EXCEPT ![f] = @ + 1]
    /\ CommitHost(Host, "recordSnapshot")
    /\ UNCHANGED <<fetches, sessions, activeDebugSession, goTo>>

\* The server answers the getStackTrace request of the load at position k
\* with the frames it has recorded by then.
Respond(k) ==
    /\ k \in 1..Len(fetches)
    /\ fetches[k].status = "pending"
    /\ fetches[k].op \in StackTraceOps
    /\ fetches' = [fetches EXCEPT ![k].status = "ok",
                                  ![k].n = api[fetches[k].functionId]]
    /\ CommitHost(Host, "respond")
    /\ UNCHANGED <<api, sessions, activeDebugSession, goTo>>

\* The outcomes the await of a load can resume with: the answer received,
\* a failed request, for function data also an empty list.
Outcomes(fetch) ==
    IF fetch.op \in StackTraceOps
    THEN IF fetch.status = "ok" THEN {"ok"} ELSE {"failed"}
    ELSE {"ok", "empty", "failed"}

\* The load ended without data: getStackTrace returned null, getFunctionData
\* returned null or, in tryOpenStackRecordingForActiveFunction, no call.
NoData(fetch) ==
    \/ fetch.status = "failed"
    \/ fetch.op = "tryOpen" /\ fetch.status = "empty"

\* The await of the load at position k resumes.  tryOpen goes on to the
\* command pymonitor.openStackRecording for the latest call, which awaits
\* getStackTrace in exploreStackTrace.
Resolve(k, outcome) ==
    /\ k \in 1..Len(fetches)
    /\ outcome \in Outcomes(fetches[k])
    /\ LET fetch == [fetches[k] EXCEPT !.status = outcome]
           stores == outcome = "ok" /\ fetch.op \in StackTraceOps
           highlights == /\ fetch.op = "explore" /\ outcome = "ok"
                         /\ state.functionDetailsPanel
       IN /\ (highlights /\ fetch.n > 0) => CanHighlight(Host)
          /\ highlights => Len(toWebview) < MaxQueue
          /\ CommitHost(Continue(Host, fetch),
                        IF NoData(fetch) THEN "loadFailed" ELSE fetch.op)
          /\ IF fetch.op = "tryOpen" /\ outcome = "ok"
             THEN \E f \in Calls :
                      fetches' = Append(RemoveAt(fetches, k), Fetch("explore", f))
             ELSE fetches' = RemoveAt(IF stores
                                      THEN MarkOvertaken(fetches, k, fetch.functionId)
                                      ELSE fetches, k)
    /\ UNCHANGED <<api, sessions, activeDebugSession, goTo>>

\* ----------------------------------------------- the editor's selection
\* onDidChangeTextEditorSelection: a change made while the flag is set is
\* skipped, any other is forwarded to the panel as editorLineClick.
onDidChangeTextEditorSelection(h, line) ==
    IF h.state.isProgrammaticSelectionChange THEN h
    ELSE IF h.state.isInStackTraceView /\ h.state.functionDetailsPanel
    THEN Post(h, [command |-> "editorLineClick", line |-> line])
    ELSE h

\* The selection change that highlightLine made reaches the listener.
DeliverSelection ==
    /\ selectionEvents # <<>>
    /\ CommitHost(onDidChangeTextEditorSelection(
                      [Host EXCEPT !.selectionEvents = Pending(Tail(@))],
                      Head(selectionEvents)),
                  "programmaticSelection")
    /\ UNCHANGED <<api, fetches, sessions, activeDebugSession, goTo>>

\* The oldest setTimeout callback of highlightLine runs, 100 ms after its
\* highlightLine: the selection change of that call has been delivered by
\* then.
TimerFires ==
    /\ timers > 0
    /\ Len(selectionEvents) < timers
    /\ CommitHost([Host EXCEPT !.timers = @ - 1,
                               !.state.isProgrammaticSelectionChange = FALSE],
                  "timer")
    /\ UNCHANGED <<api, fetches, sessions, activeDebugSession, goTo>>

\* The user moves the cursor in the editor.
UserSelects(line) ==
    /\ line # selection
    /\ selectionEvents = <<>>
    /\ CommitHost(onDidChangeTextEditorSelection(
                      [Host EXCEPT !.selection = line], line),
                  "userSelection")
    /\ UNCHANGED <<api, fetches, sessions, activeDebugSession, goTo>>

\* ---------------------------------------------------------- debug sessions
\* The status messages the listeners of one active-session change post:
\* the panel's listener (webview.ts) and the extension's (extension.ts).
onDidChangeActiveDebugSession(h, session) ==
    IF h.state.functionDetailsPanel /\ h.state.isInStackTraceView
    THEN PostStatus(PostStatus(h, session # Null), session # Null)
    ELSE h

\* onDidStartDebugSession
onDidStartDebugSession(h) ==
    IF h.state.functionDetailsPanel /\ h.state.isInStackTraceView
    THEN PostStatus(h, TRUE) ELSE h

\* onDidTerminateDebugSession
onDidTerminateDebugSession(h, active) ==
    IF h.state.functionDetailsPanel /\ h.state.isInStackTraceView
    THEN PostStatus(h, FALSE) ELSE h

\* The events leave room in the bounded queues.
RoomForEvents ==
    /\ Len(toWebview) + 3 <= MaxQueue
    /\ Len(fetches) < MaxPending

\* A debug session starts and becomes the active one.
StartDebugSession(s) ==
    /\ s \notin sessions
    /\ RoomForEvents
    /\ sessions' = sessions \cup {s}
    /\ activeDebugSession' = s
    /\ LET h == onDidChangeActiveDebugSession(onDidStartDebugSession(Host), s)
       IN /\ CommitHost(h, "startDebugSession")
          /\ fetches' = WithRefresh(fetches, h, s)
    /\ UNCHANGED <<api, goTo>>

\* The user focuses another running session.
ChangeActiveDebugSession(s) ==
    /\ s \in sessions
    /\ s # activeDebugSession
    /\ RoomForEvents
    /\ activeDebugSession' = s
    /\ LET h == onDidChangeActiveDebugSession(Host, s)
       IN /\ CommitHost(h, "changeActiveDebugSession")
          /\ fetches' = WithRefresh(fetches, h, s)
    /\ UNCHANGED <<api, sessions, goTo>>

\* A session ends: onDidTerminateDebugSession, and when it was the active
\* one another running session, if any, becomes active
\* (onDidChangeActiveDebugSession).
TerminateDebugSession(s) ==
    /\ s \in sessions
    /\ RoomForEvents
    /\ sessions' = sessions \ {s}
    /\ IF s # activeDebugSession
       THEN /\ activeDebugSession' = activeDebugSession
            /\ CommitHost(onDidTerminateDebugSession(Host, activeDebugSession),
                          "terminateDebugSession")
            /\ fetches' = fetches
       ELSE \E t \in IF sessions = {s} THEN {Null} ELSE sessions \ {s} :
              /\ activeDebugSession' = t
              /\ LET h == onDidChangeActiveDebugSession(
                              onDidTerminateDebugSession(Host, t), t)
                 IN /\ CommitHost(h, "terminateDebugSession")
                    /\ fetches' = WithRefresh(fetches, h, t)
    /\ UNCHANGED <<api, goTo>>

\* The stack page handles the oldest debugSessionStatus message
\* (case 'debugSessionStatus'); any other page has no handler for it.
DeliverStatus ==
    /\ toWebview # <<>>
    /\ CommitHost([Host EXCEPT !.toWebview = Tail(@),
                               !.isDebugging = IF panelHtml.view = "stack"
                                               THEN Head(toWebview) ELSE @],
                  "debugSessionStatus")
    /\ UNCHANGED <<api, fetches, sessions, activeDebugSession, goTo>>

\* Nothing posted is waiting to be handled and no timer is pending: the
\* deliveries commute with the loads, so the loads are explored from the
\* states in which the deliveries are done.
Quiet == toWebview = <<>> /\ selectionEvents = <<>> /\ timers = 0

\* The panel, its loads and one debug session; call 1 is the call that is
\* still being recorded.
LoadStep ==
    \/ ShowFunctionDetails
    \/ DisposePanel
    \/ \E f \in Calls : ExploreRequested(f)
    \/ BackToFunctions
    \/ ReloadStackRecording
    \/ DebugActivity
    \/ RecordSnapshot(1)
    \/ \E k \in 1..MaxPending : Respond(k)
    \/ \E k \in 1..MaxPending, outcome \in {"ok", "empty", "failed"} :
           Resolve(k, outcome)
    \/ StartDebugSession(1)
    \/ TerminateDebugSession(1)
    \/ ThreadStopped
    \/ ReloadFunctionData

NextLoads ==
    \/ DeliverStatus
    \/ DeliverSelection
    \/ TimerFires
    \/ Quiet /\ LoadStep

SpecLoads == Init /\ [][NextLoads]_vars

\* ------------------------------------------- DebuggerService.goToSnapshot
\* goToSnapshot has returned, or was never called.
GoToDone == goTo.pc \in {"idle", "done"}

\* goToSnapshot returns: showInformationMessage and true, or
\* showErrorMessage and false.
GoToReturn(ok) ==
    /\ goTo' = [goTo EXCEPT !.pc = "done", !.result = ok]
    /\ CommitHost(Notify(Host, IF ok THEN "info" ELSE "error"), "goToSnapshot")

\* The stack page posts goToSnapshotState (its isDebugging flag is set and
\* it holds frames); the command calls goToSnapshot, which returns at once
\* without a session and otherwise awaits customRequest('threads').
GoToSnapshotRequested ==
    /\ GoToDone
    /\ panelHtml.view = "stack"
    /\ isDebugging
    /\ Len(state.currentStackTraceData.frames) > 0
    /\ LET call == [goTo EXCEPT !.before = state.currentStackTraceData,
                                !.viewBefore = state.isInStackTraceView]
       IN IF activeDebugSession = Null
          THEN /\ goTo' = [call EXCEPT !.pc = "done", !.result = FALSE]
               /\ CommitHost(Notify(Host, "error"), "goToSnapshot")
          ELSE /\ goTo' = [call EXCEPT !.pc = "threads"]
               /\ CommitHost(Host, "goToSnapshotRequested")
    /\ UNCHANGED <<api, fetches, sessions, activeDebugSession>>

\* customRequest('threads') settles.  With a thread, goToSnapshot sends
\* customRequest('stackTrace'): the tracker's onWillReceiveMessage sees the
\* DAP message and calls updateStackRecordingIfDebugging.
ThreadsResponse(outcome) ==
    /\ goTo.pc = "threads"
    /\ IF outcome = "ok"
       THEN /\ activeDebugSession # Null
            /\ Len(fetches) < MaxPending
            /\ goTo' = [goTo EXCEPT !.pc = "stackTrace"]
            /\ fetches' = WithRefresh(fetches, Host, activeDebugSession)
       ELSE /\ goTo' = [goTo EXCEPT !.pc = "evaluate"]
            /\ fetches' = fetches
    /\ CommitHost(Host, "threadsResponse")
    /\ UNCHANGED <<api, sessions, activeDebugSession>>

\* customRequest('stackTrace') settles; goToSnapshot calls evaluate.
StackTraceResponse ==
    /\ goTo.pc = "stackTrace"
    /\ goTo' = [goTo EXCEPT !.pc = "evaluate"]
    /\ CommitHost(Host, "stackTraceResponse")
    /\ UNCHANGED <<api, fetches, sessions, activeDebugSession>>

\* evaluate returns: a response with a result, a response whose result is
\* '', or null (no session, or the DAP request was rejected).
EvaluateResponse(outcome) ==
    /\ goTo.pc = "evaluate"
    /\ outcome = "ok" => activeDebugSession # Null
    /\ GoToReturn(outcome = "ok")
    /\ UNCHANGED <<api, fetches, sessions, activeDebugSession>>

\* The user does nothing else until goToSnapshot has returned.
LoadStateStep ==
    \/ GoToDone /\ ShowFunctionDetails
    \/ GoToDone /\ \E f \in Calls : ExploreRequested(f)
    \/ GoToDone /\ StartDebugSession(1)
    \/ GoToDone /\ TerminateDebugSession(1)
    \/ RecordSnapshot(1)
    \/ \E k \in 1..MaxPending : Respond(k)
    \/ \E k \in 1..MaxPending, outcome \in {"ok", "failed"} : Resolve(k, outcome)
    \/ \E outcome \in {"ok", "empty", "rejected"} : ThreadsResponse(outcome)
    \/ StackTraceResponse
    \/ \E outcome \in {"ok", "empty", "null"} : EvaluateResponse(outcome)

\* One Load State request at a time, made while no load is in flight; the
\* page may make it before it has handled a posted debugSessionStatus.
NextLoadState ==
    \/ DeliverStatus
    \/ DeliverSelection
    \/ TimerFires
    \/ fetches = <<>> /\ GoToSnapshotRequested
    \/ Quiet /\ LoadStateStep

SpecLoadState == Init /\ [][NextLoadState]_vars

\* ------------------------------------------------ highlights and selections
\* The panel with the highlights the stack page asks for and the cursor
\* moves of the user, interleaved with the selection changes and the timers
\* of highlightLine.
NextSelection ==
    \/ ShowFunctionDetails
    \/ DisposePanel
    \/ ExploreRequested(1)
    \/ RecordSnapshot(1)
    \/ Respond(1)
    \/ \E outcome \in {"ok", "failed"} : Resolve(1, outcome)
    \/ BackToFunctions
    \/ ReloadFunctionData
    \/ \E line \in 1..MaxLine : HighlightLineMessage(line)
    \/ \E line \in 1..MaxLine : UserSelects(line)
    \/ DeliverStatus
    \/ DeliverSelection
    \/ TimerFires

SpecSelection == Init /\ [][NextSelection]_vars

\* ---------------------------------------------------------- several sessions
\* The stack recording of call 1 with the debug sessions that start, are
\* focused and end while it is shown, and the refresh command.
NextDebug ==
    \/ ShowFunctionDetails
    \/ ExploreRequested(1)
    \/ RefreshStackRecordingCommand(1)
    \/ \E k \in 1..MaxPending : Respond(k)
    \/ \E k \in 1..MaxPending : Resolve(k, "ok")
    \/ \E s \in Sessions : StartDebugSession(s)
    \/ \E s \in Sessions : ChangeActiveDebugSession(s)
    \/ \E s \in Sessions : TerminateDebugSession(s)
    \/ DeliverStatus

SpecDebug == Init /\ [][NextDebug]_vars

\* ------------------------------------------------------ api.ts: retryFetch
\* Everything but the services is left alone.
CommitService(op) ==
    /\ lastOp' = op
    /\ UNCHANGED <<snapshots, currentStep, localSnapshots, localStep, dbPath,
                   isDebugging, listeners, localSliderMax, changeTable,
                   loadedKey, outbox, threw>>
    /\ UNCHANGED hostVars

\* throw error: the promise of retryFetch rejects.
Reject(r, error) == [r EXCEPT !.pc = "done", !.outcome = "rejected",
                              !.error = error]

\* Variant of the catch block that never rethrows.
LastAttempt_never(r) == FALSE

\* i === maxRetries - 1
LastAttempt(r) == r.i = r.maxRetries - 1

\* The loop test i < maxRetries: another fetch, or the throw after the loop.
RetryLoop(r) ==
    IF r.i < r.maxRetries THEN [r EXCEPT !.pc = "fetch"]
    ELSE Reject(r, Error(0, "maxRetries"))

\* retryFetch(url, maxRetries) up to its first await.
RetryFetchCalled(maxRetries) ==
    /\ retry.pc \in {"idle", "done"}
    /\ retry' = RetryLoop([RetryIdle EXCEPT !.maxRetries = maxRetries])
    /\ CommitService("retryFetch")
    /\ UNCHANGED <<wait, webServer, liveVars, debuggerVars>>

\* await fetch(url) settles: a response that is ok is returned; a response
\* that is not ok throws inside the try, a network error rejects, and the
\* catch rethrows on the last attempt or starts the 1000 ms timer.
FetchSettles(outcome) ==
    /\ retry.pc = "fetch"
    /\ LET r == [retry EXCEPT !.history = Append(@, outcome)]
           attempt == Len(r.history)
       IN retry' = IF outcome = "ok"
                   THEN [r EXCEPT !.pc = "done", !.outcome = "returned",
                                  !.response = attempt]
                   ELSE IF LastAttempt(r)
                   THEN Reject(r, Error(attempt, outcome))
                   ELSE [r EXCEPT !.pc = "sleep"]
    /\ CommitService("fetchSettles")
    /\ UNCHANGED <<wait, webServer, liveVars, debuggerVars>>

\* The 1000 ms timer of the catch block fires: i++ and the loop test.
RetryTimer ==
    /\ retry.pc = "sleep"
    /\ retry' = RetryLoop([retry EXCEPT !.i = @ + 1])
    /\ CommitService("retryTimer")
    /\ UNCHANGED <<wait, webServer, liveVars, debuggerVars>>

\* The steps of a running retryFetch.
RetryStep ==
    \/ \E outcome \in {"ok", "httpError", "networkError"} : FetchSettles(outcome)
    \/ RetryTimer

\* --------------------------------- api.ts: waitForServer, startWebServer
\* waitForServer returns to its caller.
WaitReturn(w, result) == [w EXCEPT !.pc = "returned", !.result = result]

\* The loop test Date.now() - startTime < timeout: another probe, or
\* return false.
WaitLoop(w) ==
    IF w.elapsed < w.timeout THEN [w EXCEPT !.pc = "probe"]
    ELSE WaitReturn(w, FALSE)

\* Variant of the probe that takes any response for a ready server.
ProbeOk_anyResponse(outcome) == outcome # "error"

\* response.ok
ProbeOk(outcome) == outcome = "ok"

\* startWebServer after await waitForServer(): the status bar reports the
\* running server, or the catch block reports the error.  The document
\* listener leaves the status bar alone.
AfterWait(ws, w) ==
    IF w.pc = "returned" /\ w.caller = "startWebServer"
    THEN [ws EXCEPT !.statusBarItem = IF w.result THEN "running" ELSE "error"]
    ELSE ws

\* startWebServer(pythonPath, workspaceRoot) up to the first await inside
\* waitForServer: the previous process is killed, and without main.db
\* nothing else happens.
StartWebServer(dbExists, timeout) ==
    /\ wait.pc \in {"idle", "returned"}
    /\ IF dbExists
       THEN /\ wait' = WaitLoop([WaitIdle EXCEPT !.caller = "startWebServer",
                                                 !.timeout = timeout])
            /\ webServer' = AfterWait(
                   [webServer EXCEPT !.webServerProcess = TRUE], wait')
       ELSE /\ wait' = WaitIdle
            /\ webServer' = [webServer EXCEPT !.webServerProcess = FALSE]
    /\ CommitService("startWebServer")
    /\ UNCHANGED <<retry, liveVars, debuggerVars>>

\* onDidOpenTextDocument for a Python file: await waitForServer().
DocumentOpened(timeout) ==
    /\ wait.pc \in {"idle", "returned"}
    /\ wait' = WaitLoop([WaitIdle EXCEPT !.caller = "documentListener",
                                         !.timeout = timeout])
    /\ webServer' = webServer
    /\ CommitService("documentOpened")
    /\ UNCHANGED <<retry, liveVars, debuggerVars>>

\* The probe of /api/db-info settles after dt units of time: an ok response
\* returns true; any other response or a rejection starts the 100 ms
\* timer.
ProbeSettles(outcome, dt) ==
    /\ wait.pc = "probe"
    /\ LET w == [wait EXCEPT !.probes = Append(@, outcome),
                             !.elapsed = @ + dt]
       IN wait' = IF ProbeOk(outcome) THEN WaitReturn(w, TRUE)
                  ELSE [w EXCEPT !.pc = "sleep"]
    /\ webServer' = AfterWait(webServer, wait')
    /\ CommitService("probeSettles")
    /\ UNCHANGED <<retry, liveVars, debuggerVars>>

\* The 100 ms timer fires and the loop test runs.
WaitTimer ==
    /\ wait.pc = "sleep"
    /\ wait' = WaitLoop([wait EXCEPT !.elapsed = @ + 1])
    /\ webServer' = AfterWait(webServer, wait')
    /\ CommitService("waitTimer")
    /\ UNCHANGED <<retry, liveVars, debuggerVars>>

\* The steps of a running waitForServer.
WaitStep ==
    \/ \E outcome \in {"ok", "notOk", "error"}, dt \in 0..1 :
           ProbeSettles(outcome, dt)
    \/ WaitTimer

NextApi ==
    \/ \E maxRetries \in 0..MaxRetries : RetryFetchCalled(maxRetries)
    \/ RetryStep
    \/ \E dbExists \in BOOLEAN, timeout \in 0..MaxTimeout :
           StartWebServer(dbExists, timeout)
    \/ \E timeout \in 0..MaxTimeout : DocumentOpened(timeout)
    \/ WaitStep

\* Every fetch settles and every timer fires.
SpecApi ==
    Init /\ [][NextApi]_vars /\ WF_vars(RetryStep) /\ WF_vars(WaitStep)

\* --------------------------------------- liveRecording.ts: the data handler
\* data.toString(): the UTF-8 decoding of one chunk.  A two-byte character
\* whose bytes are both in the chunk is decoded; a lead byte at the end of
\* the chunk, or a continuation byte without its lead byte, becomes U+FFFD.
RECURSIVE Decode(_)
Decode(bytes) ==
    IF bytes = <<>> THEN <<>>
    ELSE IF Head(bytes) = "C3" /\ Len(bytes) > 1 /\ bytes[2] = "A9"
    THEN <<"U+00E9">> \o Decode(Tail(Tail(bytes)))
    ELSE IF Head(bytes) \in {"C3", "A9"}
    THEN <<"U+FFFD">> \o Decode(Tail(bytes))
    ELSE <<Head(bytes)>> \o Decode(Tail(bytes))

\* messageBuffer.indexOf('\n'), counted from 1; 0 when there is none.
RECURSIVE IndexOfNewline(_)
IndexOfNewline(text) ==
    IF text = <<>> THEN 0
    ELSE IF Head(text) = "LF" THEN 1
    ELSE IF IndexOfNewline(Tail(text)) = 0 THEN 0
    ELSE IndexOfNewline(Tail(text)) + 1

\* The while loop of the handler: every complete message leaves the buffer
\* and goes to handleMessage.
RECURSIVE Drain(_, _)
Drain(buffer, messages) ==
    LET newlineIndex == IndexOfNewline(buffer)
    IN IF newlineIndex = 0
       THEN [messageBuffer |-> buffer, handled |-> messages]
       ELSE Drain(SubSeq(buffer, newlineIndex + 1, Len(buffer)),
                  Append(messages, SubSeq(buffer, 1, newlineIndex - 1)))

\* socket.on('data', ...): this.messageBuffer += data.toString(), then the
\* loop.
OnData(buffer, messages, chunk) ==
    Drain(buffer \o Decode(chunk), messages)

\* The text split at its newlines: the complete lines, then what follows
\* the last newline.
RECURSIVE SplitLines(_)
SplitLines(text) ==
    LET newlineIndex == IndexOfNewline(text)
    IN IF newlineIndex = 0 THEN <<text>>
       ELSE <<SubSeq(text, 1, newlineIndex - 1)>>
            \o SplitLines(SubSeq(text, newlineIndex + 1, Len(text)))

\* ---------------------------------------------- liveRecording.ts: sockets
\* The services' own frame: everything else is left alone.
CommitLive(op) ==
    /\ CommitService(op)
    /\ UNCHANGED <<apiVars, debuggerVars>>

\* The most recently created socket (0: none yet).
Latest ==
    IF \A s \in Sockets : connections[s].state = "unused" THEN Null
    ELSE CHOOSE s \in Sockets :
             /\ connections[s].state # "unused"
             /\ \A u \in Sockets : u > s => connections[u].state = "unused"

\* resolve(value) of the promise of socket s: only the first call counts.
Resolve_(conns, s, value) ==
    IF conns[s].resolved = "pending"
    THEN [conns EXCEPT ![s].resolved = value] ELSE conns

\* socket.destroy(): the 'close' event follows.
Destroy(conns, s) ==
    IF conns[s].state \in {"connecting", "open"}
    THEN [conns EXCEPT ![s].state = "closing"] ELSE conns

\* startLiveRecording up to the await of connectSocket: startServer, then
\* a new socket replaces this.socket and the buffer is emptied.  The
\* outcome of a connect and the 'close' of a destroyed socket come within
\* milliseconds, before the user can start again.
StartLiveRecording ==
    /\ Latest < MaxSockets
    /\ \A s \in Sockets : connections[s].state \notin {"connecting", "closing"}
    /\ LET s == Latest + 1
       IN /\ connections' = [connections EXCEPT
                                ![s] = [NoSocket EXCEPT !.state = "connecting",
                                                        !.timer = TRUE]]
          /\ liveRecording' = [liveRecording EXCEPT !.socket = s,
                                                    !.messageBuffer = <<>>,
                                                    !.serverProcess = TRUE]
    /\ wire' = <<>>
    /\ received' = <<>>
    /\ handled' = <<>>
    /\ CommitLive("startLiveRecording")
    /\ UNCHANGED lastWrite

\* 'connect' of socket s.
SocketConnects(s) ==
    /\ connections[s].state = "connecting"
    /\ connections' = Resolve_([connections EXCEPT ![s].state = "open"],
                               s, "true")
    /\ liveRecording' = [liveRecording EXCEPT !.statusBarItem = "connected"]
    /\ CommitLive("socketConnects")
    /\ UNCHANGED <<wire, received, handled, lastWrite>>

\* The server writes one more byte of well-formed UTF-8 to the latest
\* connection.
ServerWrites(byte) ==
    /\ Latest # Null
    /\ connections[Latest].state = "open"
    /\ Len(received) + Len(wire) < MaxBytes
    /\ LET sent == received \o wire
       IN IF sent # <<>> /\ sent[Len(sent)] = "C3"
          THEN byte = "A9" ELSE byte # "A9"
    /\ wire' = Append(wire, byte)
    /\ CommitLive("serverWrites")
    /\ UNCHANGED <<liveRecording, connections, received, handled, lastWrite>>

\* 'data' of the latest socket with the first n bytes on the wire.
SocketData(n) ==
    /\ Latest # Null
    /\ connections[Latest].state = "open"
    /\ n \in 1..Len(wire)
    /\ LET chunk == SubSeq(wire, 1, n)
           after == OnData(liveRecording.messageBuffer, handled, chunk)
       IN /\ liveRecording' = [liveRecording EXCEPT
                                  !.messageBuffer = after.messageBuffer]
          /\ handled' = after.handled
          /\ received' = received \o chunk
          /\ wire' = SubSeq(wire, n + 1, Len(wire))
    /\ CommitLive("socketData")
    /\ UNCHANGED <<connections, lastWrite>>

\* 'error' of socket s (connection refused or reset); Node then destroys
\* the socket, and its 'close' follows.
SocketError(s) ==
    /\ connections[s].state \in {"connecting", "open"}
    /\ connections' = Resolve_(Destroy(connections, s), s, "false")
    /\ liveRecording' = [liveRecording EXCEPT !.statusBarItem = "error"]
    /\ CommitLive("socketError")
    /\ UNCHANGED <<wire, received, handled, lastWrite>>

\* The server ends the connection of socket s.
PeerCloses(s) ==
    /\ connections[s].state = "open"
    /\ connections' = Destroy(connections, s)
    /\ CommitLive("peerCloses")
    /\ UNCHANGED <<liveRecording, wire, received, handled, lastWrite>>

\* 'close' of socket s.
SocketClosed(s) ==
    /\ connections[s].state = "closing"
    /\ connections' = [connections EXCEPT ![s].state = "closed"]
    /\ liveRecording' = [liveRecording EXCEPT !.statusBarItem = "off",
                                              !.socket = Null]
    /\ CommitLive("socketClosed")
    /\ UNCHANGED <<wire, received, handled, lastWrite>>

\* socket.destroyed
Destroyed(s) == connections[s].state \in {"closing", "closed"}

\* The 5 s timer set by the connectSocket of socket s fires; the timers
\* fire in the order they were set.  net.Socket has no property
\* `connected`, so !(this.socket as any).connected is true.
ConnectTimeout(s) ==
    /\ connections[s].timer
    /\ \A u \in 1..(s - 1) : ~connections[u].timer
    /\ LET fired == [connections EXCEPT ![s].timer = FALSE]
           socket == liveRecording.socket
       IN connections' = IF socket # Null /\ ~Destroyed(socket)
                         THEN Resolve_(Destroy(fired, socket), s, "false")
                         ELSE fired
    /\ CommitLive("connectTimeout")
    /\ UNCHANGED <<liveRecording, wire, received, handled, lastWrite>>

\* this.socket.write(command + '\n'), or the early return without a
\* socket.
Write == liveRecording.socket

\* startLiveRecording after connectSocket resolved true: the user picks an
\* execution, the save listener is registered and set_example is sent.
ExampleSelected(s) ==
    /\ connections[s].resolved = "true"
    /\ ~connections[s].continued
    /\ connections' = [connections EXCEPT ![s].continued = TRUE]
    /\ lastWrite' = Write
    /\ liveRecording' = [liveRecording EXCEPT !.documentSaveListener = TRUE,
                                              !.statusBarItem = "recording"]
    /\ CommitLive("setExample")
    /\ UNCHANGED <<wire, received, handled>>

\* onDidSaveTextDocument of a Python document: sendChangeCommand.
DocumentSaved ==
    /\ liveRecording.documentSaveListener
    /\ lastWrite' = Write
    /\ CommitLive("change")
    /\ UNCHANGED <<liveRecording, connections, wire, received, handled>>

\* stopLiveRecording()
StopLiveRecording ==
    /\ connections' = IF liveRecording.socket # Null
                      THEN Destroy(connections, liveRecording.socket)
                      ELSE connections
    /\ liveRecording' = [liveRecording EXCEPT !.socket = Null,
                                              !.serverProcess = FALSE,
                                              !.documentSaveListener = FALSE,
                                              !.statusBarItem = "off"]
    /\ CommitLive("stopLiveRecording")
    /\ UNCHANGED <<wire, received, handled, lastWrite>>

NextLive ==
    \/ StartLiveRecording
    \/ StopLiveRecording
    \/ \E s \in Sockets : ExampleSelected(s)
    \/ DocumentSaved
    \/ \E s \in Sockets : SocketConnects(s)
    \/ \E s \in Sockets : SocketError(s)
    \/ \E s \in Sockets : PeerCloses(s)
    \/ \E s \in Sockets : SocketClosed(s)
    \/ \E s \in Sockets : ConnectTimeout(s)

SpecLive == Init /\ [][NextLive]_vars

NextStream ==
    \/ StartLiveRecording
    \/ \E s \in Sockets : SocketConnects(s)
    \/ \E byte \in Bytes : ServerWrites(byte)
    \/ \E n \in 1..MaxBytes : SocketData(n)

SpecStream == Init /\ [][NextStream]_vars

\* ------------------------------- debugger.ts: ensureBreakpointAtFunction
\* existingBreakpoints.some(bp => ... location.range.start.line ===
\* functionStartLine)
BreakpointExists(bps, functionStartLine) ==
    \E k \in 1..Len(bps) : bps[k] = functionStartLine

\* ensureBreakpointAtFunction(uri, functionInfo): without a breakpoint on
\* the line of the def, addBreakpoints of a SourceBreakpoint at
\* Position(functionStartLine + 1, 0).
ensureBreakpointAtFunction(bps, functionStartLine) ==
    IF ~BreakpointExists(bps, functionStartLine)
    THEN Append(bps, functionStartLine + 1)
    ELSE bps

\* debugFunction(uri, functionInfo) for the function whose def is on
\* `line`, up to the quick pick.
DebugFunction(line) ==
    /\ Len(breakpoints) < MaxBreakpoints
    /\ breakpoints' = ensureBreakpointAtFunction(breakpoints, line)
    /\ added' = [added EXCEPT ![line] = @ + Len(breakpoints') - Len(breakpoints)]
    /\ CommitService("debugFunction")
    /\ UNCHANGED <<apiVars, liveVars>>

\* The user sets a breakpoint in the gutter of a line without one.
AddBreakpoint(line) ==
    /\ Len(breakpoints) < MaxBreakpoints
    /\ ~BreakpointExists(breakpoints, line)
    /\ breakpoints' = Append(breakpoints, line)
    /\ added' = added
    /\ CommitService("addBreakpoint")
    /\ UNCHANGED <<apiVars, liveVars>>

\* The user removes the k-th breakpoint.
RemoveBreakpoint(k) ==
    /\ k \in 1..Len(breakpoints)
    /\ breakpoints' = RemoveAt(breakpoints, k)
    /\ added' = [line \in StartLines |-> 0]
    /\ CommitService("removeBreakpoint")
    /\ UNCHANGED <<apiVars, liveVars>>

NextBreakpoints ==
    \/ \E line \in StartLines : DebugFunction(line)
    \/ \E line \in 0..(MaxStartLine + 1) : AddBreakpoint(line)
    \/ \E k \in 1..MaxBreakpoints : RemoveBreakpoint(k)

SpecBreakpoints == Init /\ [][NextBreakpoints]_vars

\* ------------------------------------------------- providers/testProvider
\* NodeDependenciesProvider.getChildren() at the root: the lines of the
\* frames held in state, or the one item 'No stack trace available' (-1).
getChildren(s) ==
    IF s.currentStackTraceData # NullData
    THEN [i \in 1..Len(s.currentStackTraceData.frames) |->
             s.currentStackTraceData.frames[i].line]
    ELSE <<-1>>

\* ------------------------------------------------------------ vocabulary
Highlight(line) == [command |-> "highlightLine", line |-> line]

\* The 0-based indices of the snapshots of a line.
IndicesOfLine(seq, line) == {i \in 0..(Len(seq) - 1) : seq[i + 1].line = line}

MinOf(S) == CHOOSE x \in S : \A y \in S : x <= y

\* The DOM events and messages that navigate.
NavigationOps ==
    {"timelineInput", "prevClick", "nextClick", "localInput",
     "localPrevClick", "localNextClick", "goToStateClick",
     "editorLineClick", "updateStep"}

\* ------------------------------------------------------------------ C1
\* C1: whenever the snapshot list is non-empty, 0 <= currentStep <
\* snapshots.length, after any sequence of operations.
C1_CursorInBounds ==
    Len(snapshots) > 0 => (0 <= currentStep /\ currentStep < Len(snapshots))

\* ------------------------------------------------------------------ C2
\* C2: whenever the timeline is non-empty, snapshots[currentStep] is an
\* element of localSnapshots and localSnapshots[localStep] has its id.
C2_LocalProjectionConsistent ==
    Len(snapshots) > 0 =>
        /\ InRange(snapshots, currentStep)
        /\ \E i \in 1..Len(localSnapshots) :
               localSnapshots[i] = snapshots[currentStep + 1]
        /\ InRange(localSnapshots, localStep)
        /\ localSnapshots[localStep + 1].snapshot_id
               = snapshots[currentStep + 1].snapshot_id

\* ------------------------------------------------------------------ C3
\* C3: once the controls are wired, a click on Next moves the cursor by
\* exactly one when currentStep < n - 1 and a click on Previous by exactly
\* one when currentStep > 0; at the boundary the click changes nothing.
C3_StepByExactlyOne ==
    [][listeners > 0 =>
         /\ lastOp' = "nextClick" =>
                currentStep' = IF currentStep < Len(snapshots) - 1
                               THEN currentStep + 1 ELSE currentStep
         /\ lastOp' = "prevClick" =>
                currentStep' = IF currentStep > 0
                               THEN currentStep - 1 ELSE currentStep]_vars

\* ------------------------------------------------------------------ C4
\* C4: editorLineClick for line L moves currentStep to the lowest index whose
\* snapshot has line L (staying put if it is already there), and leaves the
\* cursor unchanged when no snapshot has line L.
C4_GoToLineFirstOccurrence ==
    [][lastOp' = "editorLineClick" =>
         \A line \in Lines :
            EditorLineClick(line) =>
                currentStep' = IF IndicesOfLine(snapshots, line) # {}
                               THEN MinOf(IndicesOfLine(snapshots, line))
                               ELSE currentStep]_vars

\* The clicked line occurs at indices 0 and 2, another line lies between, and
\* the cursor is on index 0.
C4_Witness ==
    /\ lastOp = "editorLineClick"
    /\ Len(snapshots) >= 3
    /\ snapshots[1].line = snapshots[3].line
    /\ snapshots[2].line # snapshots[1].line
    /\ currentStep = 0
    /\ outbox = <<Highlight(snapshots[1].line)>>

\* ------------------------------------------------------------------ C5
\* C5: in every reachable state, handling an updateStackTrace that delivers a
\* sequence strictly longer than the current one replaces the timeline by it
\* and sets currentStep to the new last index.
C5_ReplaceGrowthFollows ==
    \A seq \in SnapshotSeqs :
        Len(seq) > Len(snapshots) =>
            LET r == handleUpdateStackTrace(Nav, listeners > 0, seq)
            IN /\ r.snapshots = seq
               /\ r.currentStep = Len(seq) - 1

\* A replace has put the cursor on the last of several snapshots.
C5_Witness ==
    /\ lastOp = "updateStackTrace"
    /\ Len(snapshots) >= 2
    /\ currentStep = Len(snapshots) - 1
    /\ outbox = <<Highlight(snapshots[Len(snapshots)].line)>>

\* ------------------------------------------------------------------ C6
\* C6: from a state whose cursor is in range, an updateStackTrace delivering
\* a non-empty sequence of equal or shorter length leaves currentStep
\* unchanged if it is still a valid index and otherwise clamps it to
\* n_new - 1.
C6_ReplaceKeepsOrClamps ==
    [][(InRange(snapshots, currentStep) /\ lastOp' = "updateStackTrace") =>
         \A seq \in SnapshotSeqs :
            (Len(seq) > 0 /\ Len(seq) <= Len(snapshots)
               /\ UpdateStackTrace(seq)) =>
                currentStep' = IF currentStep < Len(seq)
                               THEN currentStep ELSE Len(seq) - 1]_vars

\* ------------------------------------------------------------------ C7
\* C7: with a timeline loaded and the cursor in range, a step outside
\* 0..n-1, from the timeline slider or from an updateStep message, changes
\* neither cursor, requests no highlight and raises nothing.
C7_OutOfRangeStepIgnored ==
    [][InRange(snapshots, currentStep) =>
         \A step \in StepArgs :
            (~InRange(snapshots, step)
               /\ (UpdateStep(step) \/ TimelineSliderInput(step))) =>
                /\ currentStep' = currentStep
                /\ localStep' = localStep
                /\ outbox' = <<>>
                /\ ~threw']_vars

\* ------------------------------------------------------------------ C8
\* C8: with no snapshot loaded every navigation input changes no cursor,
\* posts no message and raises no exception.
C8_EmptyNavigationIsNoOp ==
    [][(Len(snapshots) = 0 /\ lastOp' \in NavigationOps) =>
         /\ currentStep' = currentStep
         /\ localStep' = localStep
         /\ outbox' = <<>>
         /\ ~threw']_vars

\* ------------------------------------------------------------------ C9
\* C9: a setSnapshots with a non-empty sequence replaces the timeline by that
\* sequence, sets currentStep to 0 and requests the highlight of the first
\* snapshot's line, whatever was handled before it (the updateStackTrace that
\* exploreStackTrace posts first included).
C9_LoadPositionsAtZero ==
    [][lastOp' = "setSnapshots" =>
         \A seq \in SnapshotSeqs :
            (Len(seq) > 0 /\ SetSnapshots(seq)) =>
                /\ snapshots' = seq
                /\ currentStep' = 0
                /\ outbox' = <<Highlight(seq[1].line)>>
                /\ ~threw']_vars

\* A load of several snapshots has been handled on a fresh page.
C9_Witness ==
    /\ lastOp = "setSnapshots"
    /\ listeners = 1
    /\ Len(snapshots) >= 2
    /\ currentStep = 0
    /\ outbox = <<Highlight(snapshots[1].line)>>

\* ----------------------------------------------------------------- C10
\* C10 as stated: a setSnapshots with an empty array leaves the loaded
\* timeline, currentStep and localStep unchanged.
C10_EmptyLoadIsNoOp ==
    [][SetSnapshots(<<>>) =>
         /\ snapshots' = snapshots
         /\ currentStep' = currentStep
         /\ localStep' = localStep]_vars

\* C10 amended: a setSnapshots with an empty array raises nothing and
\* requests no highlight; it empties the timeline and sets currentStep to 0,
\* and leaves localSnapshots and localStep unchanged.
C10_EmptyLoadClears ==
    [][SetSnapshots(<<>>) =>
         /\ snapshots' = <<>>
         /\ currentStep' = 0
         /\ localSnapshots' = localSnapshots
         /\ localStep' = localStep
         /\ outbox' = <<>>
         /\ ~threw']_vars

\* An empty load has been handled over a timeline that had been loaded.
C10_Witness ==
    /\ lastOp = "setSnapshots"
    /\ snapshots = <<>>
    /\ Len(localSnapshots) > 0

\* ----------------------------------------------------------------- C11
\* The snapshots of a line, in the order of the global timeline.
ProjectionOf(seq, line) ==
    LET I == IndicesOfLine(seq, line)
    IN [k \in 1..Cardinality(I) |-> seq[SortedIds(I)[k] + 1]]

\* The last operation completed a goToStep: it posted a highlightLine.
HighlightPosted == \E i \in 1..Len(outbox) : outbox[i].command = "highlightLine"

\* C11: after a navigation that went to step s, localSnapshots is exactly the
\* order-preserving subsequence of snapshots whose line is snapshots[s].line,
\* and localStep is the position in it of the entry with snapshots[s]'s id.
C11_LocalTimelineIsProjection ==
    (lastOp \in NavigationOps /\ HighlightPosted
       /\ InRange(snapshots, currentStep)) =>
        /\ localSnapshots =
               ProjectionOf(snapshots, snapshots[currentStep + 1].line)
        /\ InRange(localSnapshots, localStep)
        /\ localSnapshots[localStep + 1].snapshot_id
               = snapshots[currentStep + 1].snapshot_id
        /\ \A j \in 1..Len(localSnapshots) :
               localSnapshots[j].snapshot_id
                   = snapshots[currentStep + 1].snapshot_id => j = localStep + 1

\* Scenario A at step 2: lines [1,2,1], the local timeline is the first and
\* the third snapshot and localStep is 1.
C11_Witness ==
    /\ lastOp \in NavigationOps
    /\ HighlightPosted
    /\ Len(snapshots) = 3
    /\ snapshots[1].line = snapshots[3].line
    /\ snapshots[2].line # snapshots[1].line
    /\ currentStep = 2
    /\ localSnapshots = <<snapshots[1], snapshots[3]>>
    /\ localStep = 1

\* ----------------------------------------------------------------- C12
\* The result of one goToLocalStep request handled by a local-timeline
\* listener, as a check against the target index i.
LocalStepReached(r, i) ==
    /\ ~r.threw
    /\ r.localStep = i
    /\ InRange(r.snapshots, r.currentStep)
    /\ r.snapshots[r.currentStep + 1].snapshot_id
           = localSnapshots[i + 1].snapshot_id
    /\ r.snapshots = snapshots

\* A listener left both cursors as they were and posted nothing.
LocalStepIgnored(r) ==
    /\ ~r.threw
    /\ r.currentStep = currentStep
    /\ r.localStep = localStep
    /\ r.outbox = <<>>

C13_NavigationRequestsHighlight ==
    [][(lastOp' # "setHtml" /\ currentStep' # currentStep
          /\ ~threw' /\ Len(snapshots') > 0) =>
         /\ InRange(snapshots', currentStep')
         /\ outbox' # <<>>
         /\ outbox'[Len(outbox')] =
                Highlight(snapshots'[currentStep' + 1].line)]_vars

\* A single Next click has moved the cursor onto a snapshot of another line
\* and requested the highlight of that line.
C13_Witness ==
    /\ lastOp = "nextClick"
    /\ listeners = 1
    /\ currentStep = 1
    /\ Len(snapshots) >= 2
    /\ snapshots[2].line # snapshots[1].line
    /\ outbox = <<Highlight(snapshots[2].line)>>

\* ----------------------------------------------------------------- C14
\* C14: from a state that is empty or whose cursor is in range, every
\* updateStackTrace delivering a non-empty sequence - longer, shorter or of
\* the same length - completes, leaves localSnapshots and localStep computed
\* from the new data, and requests the highlight of the current snapshot's
\* line.
C14_UpdateRecomputesAndHighlights ==
    [][((Len(snapshots) = 0 \/ InRange(snapshots, currentStep))
          /\ lastOp' = "updateStackTrace") =>
         \A seq \in SnapshotSeqs :
            (Len(seq) > 0 /\ UpdateStackTrace(seq)) =>
                /\ ~threw'
                /\ InRange(seq, currentStep')
                /\ localSnapshots' =
                       ProjectionOf(seq, seq[currentStep' + 1].line)
                /\ InRange(localSnapshots', localStep')
                /\ localSnapshots'[localStep' + 1] = seq[currentStep' + 1]
                /\ outbox' = <<Highlight(seq[currentStep' + 1].line)>>]_vars

\* ----------------------------------------------------------------- C15
\* C15 as stated: a load or a replace that takes the state from Empty to
\* Positioned leaves currentStep = 0, and after a load or a replace the
\* timeline is empty exactly when the delivered sequence is empty.
C15_EmptyIffLastDeliveryEmpty ==
    [][lastOp' \in {"setSnapshots", "updateStackTrace"} =>
         /\ (Len(snapshots) = 0 /\ Len(snapshots') > 0) => currentStep' = 0
         /\ \A seq \in SnapshotSeqs :
               (SetSnapshots(seq) \/ UpdateStackTrace(seq)) =>
                   (Len(snapshots') = 0 <=> Len(seq) = 0)]_vars

\* C15 amended: in every reachable state, a load (setSnapshots) makes the
\* timeline the delivered sequence and puts the cursor on 0, so it leads to
\* Empty exactly when it carries no data; a replace (updateStackTrace) with
\* an empty sequence is ignored, and a non-empty one makes the timeline the
\* delivered sequence, taking Empty to Positioned on the last index.
C15_LoadAndReplaceTransitions ==
    \A seq \in SnapshotSeqs :
        LET l == handleSetSnapshots(Nav, seq)
            r == handleUpdateStackTrace(Nav, listeners > 0, seq)
        IN /\ l.snapshots = seq /\ l.currentStep = 0 /\ ~l.threw
           /\ Len(seq) = 0 =>
                 /\ r.snapshots = snapshots /\ r.currentStep = currentStep
                 /\ r.outbox = <<>> /\ ~r.threw
           /\ Len(seq) > 0 => r.snapshots = seq
           /\ (Len(seq) > 0 /\ Len(snapshots) = 0) =>
                 r.currentStep = Len(seq) - 1 /\ ~r.threw

\* A replace on a page that has handled no load has positioned the cursor on
\* the last of three snapshots.
C15_Witness ==
    /\ lastOp = "updateStackTrace"
    /\ listeners = 0
    /\ Len(snapshots) = 3
    /\ currentStep = 2
    /\ ~threw

\* ----------------------------------------------------------------- C16
\* The operations that deliver data or rebuild the page.
DeliveryOps == {"setSnapshots", "updateStackTrace", "setHtml"}

\* C16 as stated: after every load and every replace the timeline is exactly
\* the delivered sequence, and no other operation changes the timeline.
C16_TimelineIsLastDelivery ==
    [][/\ \A seq \in SnapshotSeqs :
             (SetSnapshots(seq) \/ UpdateStackTrace(seq)) => snapshots' = seq
       /\ lastOp' \notin DeliveryOps => snapshots' = snapshots]_vars

\* C16 amended: in every reachable state a load makes the timeline exactly
\* the delivered sequence, and so does a replace that delivers a non-empty
\* sequence, while an empty replace leaves the timeline as it was; no
\* navigation operation (buttons, sliders, local navigation, editorLineClick,
\* updateStep) changes the timeline.
C16_TimelineOnlyReplacedWholesale ==
    /\ [](\A seq \in SnapshotSeqs :
            /\ handleSetSnapshots(Nav, seq).snapshots = seq
            /\ handleUpdateStackTrace(Nav, listeners > 0, seq).snapshots =
                   IF Len(seq) > 0 THEN seq ELSE snapshots)
    /\ [][lastOp' \notin DeliveryOps => snapshots' = snapshots]_vars

\* Local navigation has moved the cursor to the last of three snapshots whose
\* middle one is on another line.
C16_Witness ==
    /\ lastOp = "localNextClick"
    /\ Len(snapshots) = 3
    /\ snapshots[2].line # snapshots[1].line
    /\ snapshots[3].line = snapshots[1].line
    /\ currentStep = 2
    /\ outbox # <<>>

\* ----------------------------------------------------------------- C17
\* The value of variable v in the nearest row before r that has it.
LastEmitted(rows, r, v) ==
    IF \E q \in 1..(r - 1) : ValueIn(rows[q], v) # Undefined
    THEN ValueIn(rows[CHOOSE q \in 1..(r - 1) :
                        /\ ValueIn(rows[q], v) # Undefined
                        /\ \A p \in (q + 1)..(r - 1) :
                               ValueIn(rows[p], v) = Undefined], v)
    ELSE Undefined

\* What the cell of variable v in row r has to show.
CellKind(rows, r, v) ==
    IF ValueIn(rows[r], v) = Undefined THEN "absent"
    ELSE IF ValueIn(rows[r], v) = LastEmitted(rows, r, v) THEN "unchanged"
    ELSE "value"

\* C17: in the table built from the local timeline, a cell whose variable is
\* new or changed shows the literal value, and no cell of an absent variable
\* shows the same text as a cell of an unchanged variable.
C17_AbsentDistinctFromUnchanged ==
    (lastOp = "setSnapshots" /\ Len(localSnapshots) > 0) =>
        LET cols == changeTable.columns
            Cells == (1..Len(localSnapshots)) \X (1..Len(cols))
        IN /\ Len(changeTable.rows) = Len(localSnapshots)
           /\ \A x \in Cells :
                 CellKind(localSnapshots, x[1], cols[x[2]]) = "value" =>
                     changeTable.rows[x[1]][x[2]]
                         = ValueIn(localSnapshots[x[1]], cols[x[2]])
           /\ \A x, y \in Cells :
                 (/\ CellKind(localSnapshots, x[1], cols[x[2]]) = "absent"
                  /\ CellKind(localSnapshots, y[1], cols[y[2]]) = "unchanged")
                     => changeTable.rows[x[1]][x[2]]
                            # changeTable.rows[y[1]][y[2]]

\* ----------------------------------------------------------------- C18
\* The variable names that occur in some snapshot of the rows.
NamesOfRows(rows) ==
    UNION { {LocalsOf(rows[r])[i].name : i \in 1..Len(LocalsOf(rows[r]))} :
            r \in 1..Len(rows) }

\* C18: the columns of the table built from the local timeline are the
\* variable names that occur in any of its snapshots, each once, in
\* ascending order, whatever the order in which the snapshots introduce
\* them; the table has one row per local-timeline entry and one cell per
\* column in every row.
C18_ColumnsSortedUnion ==
    (lastOp = "setSnapshots" /\ Len(localSnapshots) > 0) =>
        LET cols == changeTable.columns
        IN /\ {cols[c] : c \in 1..Len(cols)} = NamesOfRows(localSnapshots)
           /\ \A c, d \in 1..Len(cols) : c < d => cols[c] < cols[d]
           /\ Len(changeTable.rows) = Len(localSnapshots)
           /\ \A r \in 1..Len(changeTable.rows) :
                 Len(changeTable.rows[r]) = Len(cols)

\* The first snapshot introduces the greater name before the smaller one,
\* and the columns are in ascending order.
C18_Witness ==
    /\ lastOp = "setSnapshots"
    /\ Len(localSnapshots) >= 2
    /\ Len(LocalsOf(localSnapshots[1])) = 1
    /\ LocalsOf(localSnapshots[1])[1].name = 2
    /\ Len(LocalsOf(localSnapshots[2])) = 1
    /\ LocalsOf(localSnapshots[2])[1].name = 1
    /\ changeTable.columns = <<1, 2>>
    /\ Len(changeTable.rows) = Len(localSnapshots)

\* ----------------------------------------------------------------- C19
\* The local timeline holds an entry whose id is no longer in the global
\* timeline, in a state that is Empty or whose cursor is in range.
ReferenceMissing ==
    /\ Len(snapshots) = 0 \/ InRange(snapshots, currentStep)
    /\ \E i \in 1..Len(localSnapshots) :
           FindIndexById(snapshots, localSnapshots[i].snapshot_id) = -1

LocalOps == {"localInput", "localPrevClick", "localNextClick"}

\* C19: while the local timeline references a snapshot id that can no longer
\* be found, the local Previous, Next and slider inputs change neither
\* cursor.
C19_StaleLocalControlsInert ==
    [][(ReferenceMissing /\ listeners > 0 /\ lastOp' \in LocalOps) =>
         /\ currentStep' = currentStep
         /\ localStep' = localStep]_vars

WellFormed(s) == s.line # Undefined /\ s.snapshot_id # Undefined

\* C20: a snapshot that lacks its line or its id never appears in the local
\* timeline of a well-formed current snapshot and contributes no column to
\* the change table, and no operation throws.
C20_MalformedEntriesExcluded ==
    (InRange(snapshots, currentStep) /\ WellFormed(snapshots[currentStep + 1])) =>
        /\ ~threw
        /\ \A i \in 1..Len(localSnapshots) : WellFormed(localSnapshots[i])
        /\ \A c \in 1..Len(changeTable.columns) :
               \E i \in 1..Len(localSnapshots) :
                   /\ WellFormed(localSnapshots[i])
                   /\ ValueIn(localSnapshots[i], changeTable.columns[c]) # Undefined

\* C21: a goToSnapshotState message is posted only while the timeline is
\* non-empty, a database path is set and a debug session is reported; it
\* carries the id of snapshots[currentStep], and the extension hands that
\* id unchanged to DebuggerService.goToSnapshot.
C21_LoadStateRequest ==
    \A i \in 1..Len(outbox) :
        outbox[i].command = "goToSnapshotState" =>
            /\ Len(snapshots) > 0
            /\ dbPath
            /\ isDebugging
            /\ InRange(snapshots, currentStep)
            /\ outbox[i].snapshotId = snapshots[currentStep + 1].snapshot_id
            /\ onGoToSnapshotState(outbox[i]) =
                   GoToSnapshotCall(snapshots[currentStep + 1].snapshot_id, TRUE)

C21_Witness ==
    /\ lastOp = "goToStateClick"
    /\ currentStep > 0
    /\ \E i \in 1..Len(outbox) : outbox[i].command = "goToSnapshotState"

\* The messages that carry frames to the webview.
DataCommands == {"setSnapshots", "updateStackTrace"}

PostedData(msgs) == \E i \in 1..Len(msgs) : msgs[i].command \in DataCommands

\* C23: a load that ends without data leaves state.currentStackTraceData,
\* state.currentFunctionData, state.functionDataCache and
\* state.isInStackTraceView as they were and posts neither setSnapshots nor
\* updateStackTrace.
C23_FailedLoadLeavesView ==
    [][lastOp' = "loadFailed" =>
         /\ state'.currentStackTraceData = state.currentStackTraceData
         /\ state'.currentFunctionData = state.currentFunctionData
         /\ state'.functionDataCache = state.functionDataCache
         /\ state'.isInStackTraceView = state.isInStackTraceView
         /\ ~PostedData(posted')]_vars

C23_Witness ==
    /\ lastOp = "loadFailed"
    /\ notified = "error"
    /\ ~state.isInStackTraceView
    /\ state.currentStackTraceData # NullData
    /\ panelHtml = FunctionsPage

\* C24: after backToFunctions the view has ended: isInStackTraceView is
\* false, no highlight is left, and the previous call's frames are neither
\* held in state nor presented by the tree view.
C24_BackDiscardsSnapshots ==
    lastOp = "backToFunctions" =>
        /\ ~state.isInStackTraceView
        /\ decorations = {}
        /\ state.currentStackTraceData = NullData
        /\ getChildren(state) = <<-1>>

\* The refreshes of the stack recording.
RefreshOps == {"reload", "refresh", "refreshCommand"}

\* C25: the frames a refresh stores and posts are those of the call the
\* panel is showing when it stores them.
C25_RefreshBelongsToShownCall ==
    [][lastOp' \in RefreshOps =>
         panelHtml' = StackPage(state'.currentStackTraceData.function)]_vars

\* C26: a response that was requested before the one whose data is held
\* does not replace that data.
C26_LatestRequestWins ==
    [][\A k \in 1..MaxPending :
         (Resolve(k, "ok") /\ fetches[k].op = "refresh" /\ fetches[k].overtaken)
             => state'.currentStackTraceData = state.currentStackTraceData]_vars

\* C28: isInStackTraceView only while a panel exists and shows a stack
\* recording.
C28_InViewOnlyWithPanel ==
    state.isInStackTraceView =>
        state.functionDetailsPanel /\ panelHtml.view = "stack"

\* C22: when goToSnapshot returns false it has shown an error, and
\* state.currentStackTraceData and state.isInStackTraceView are what they
\* were when the request was made.
C22_FailedSyncLeavesState ==
    [][(goTo.pc # "done" /\ goTo'.pc = "done" /\ ~goTo'.result) =>
         /\ notified' = "error"
         /\ state'.currentStackTraceData = goTo'.before
         /\ state'.isInStackTraceView = goTo'.viewBefore]_vars

\* C27: the selection change that a highlightLine made is never posted to
\* the page as editorLineClick when it reaches the selection listener.
C27_ProgrammaticSelectionNotForwarded ==
    [][lastOp' = "programmaticSelection" =>
         \A i \in 1..Len(posted') : posted'[i].command # "editorLineClick"]_vars

\* The step is one of the handlers that call clearHighlight: back to the
\* call list, panel disposal, or a reload of the call list that arrives
\* while the stack recording is shown.
Cleared ==
    \/ lastOp' \in {"backToFunctions", "dispose"}
    \/ /\ lastOp' = "reloadFunctions"
       /\ state.functionDetailsPanel
       /\ state.isInStackTraceView

\* C30: at most one highlight decoration is live, the module's handle and
\* state.currentHighlight reference the same decoration, which is the live
\* one, and after clearHighlight no decoration remains and both handles are
\* null.
C30_SingleHighlight ==
    /\ [](/\ Cardinality(decorations) <= 1
          /\ currentHighlight = state.currentHighlight
          /\ decorations = IF currentHighlight = Null THEN {}
                           ELSE {currentHighlight})
    /\ [][Cleared => /\ decorations' = {}
                     /\ currentHighlight' = Null
                     /\ state'.currentHighlight = Null]_vars

\* A second highlightLine has replaced the decoration of the first.
C30_Witness ==
    /\ lastOp = "highlightLine"
    /\ currentHighlight > 1
    /\ decorations = {currentHighlight}

\* C29: while the stack recording is shown and no posted debugSessionStatus
\* is left to handle, the page's isDebugging flag says whether an active
\* debug session exists.
C29_StatusFollowsSessions ==
    (/\ panelHtml.view = "stack"
     /\ state.isInStackTraceView
     /\ toWebview = <<>>) => (isDebugging <=> activeDebugSession # Null)

\* C31: retryFetch makes at most maxRetries attempts, returns the first
\* response that is ok, goes on after a non-ok status as after a network
\* error, rejects after maxRetries failed attempts with the error of the
\* last one, and every call ends.
Failures == {"httpError", "networkError"}

C31_RetryFetchBounded ==
    /\ [](/\ Len(retry.history) <= retry.maxRetries
          /\ \A k \in 1..(Len(retry.history) - 1) :
                 retry.history[k] \in Failures
          /\ retry.pc = "sleep" =>
                 retry.history[Len(retry.history)] \in Failures
          /\ retry.outcome = "returned" =>
                 /\ retry.response = Len(retry.history)
                 /\ retry.history[retry.response] = "ok"
          /\ (retry.outcome = "rejected" /\ retry.maxRetries > 0) =>
                 /\ Len(retry.history) = retry.maxRetries
                 /\ retry.error = Error(retry.maxRetries,
                                        retry.history[retry.maxRetries])
                 /\ retry.error.kind \in Failures
          /\ retry.pc = "done" <=> retry.outcome # "none")
    /\ (retry.pc = "fetch") ~> (retry.pc = "done")

\* retryFetch(3) rejected after an HTTP error followed by two others.
C31_Witness ==
    /\ retry.outcome = "rejected"
    /\ retry.maxRetries = 3
    /\ retry.history[1] = "httpError"
    /\ retry.error.attempt = 3

\* C32: waitForServer returns true exactly when its last probe answered
\* ok, which is its first ok probe; it returns false only once the timeout
\* has elapsed; every call returns; and startWebServer sets the status bar
\* to running only when waitForServer returned true, to the error status
\* when it returned false.
C32_WaitForServer ==
    /\ [](wait.pc = "returned" =>
            /\ wait.result <=> (/\ wait.probes # <<>>
                                /\ wait.probes[Len(wait.probes)] = "ok")
            /\ \A k \in 1..(Len(wait.probes) - 1) : wait.probes[k] # "ok"
            /\ ~wait.result => wait.elapsed >= wait.timeout)
    /\ [][/\ webServer'.statusBarItem # webServer.statusBarItem =>
              /\ wait'.pc = "returned"
              /\ wait'.caller = "startWebServer"
              /\ webServer'.statusBarItem =
                     IF wait'.result THEN "running" ELSE "error"
          /\ (wait'.pc = "returned" /\ wait' # wait
                 /\ wait'.caller = "startWebServer") =>
              webServer'.statusBarItem =
                  IF wait'.result THEN "running" ELSE "error"]_vars
    /\ (wait.pc \in {"probe", "sleep"}) ~> (wait.pc = "returned")

\* startWebServer reported the running server after a failed probe and a
\* successful one.
C32_Witness ==
    /\ wait.pc = "returned"
    /\ wait.caller = "startWebServer"
    /\ wait.result
    /\ Len(wait.probes) > 1
    /\ webServer.statusBarItem = "running"

\* C33: the messages passed to handleMessage, followed by the buffer, are
\* the text of the bytes received so far split at its newlines, however
\* the bytes were split into chunks.
C33_MessagesAreLines ==
    Append(handled, liveRecording.messageBuffer) = SplitLines(Decode(received))

\* C34: while the most recently created connection is open, this.socket
\* designates it, the status bar does not say Off, and the commands are
\* written to it.
C34_SocketIsLatest ==
    (Latest # Null /\ connections[Latest].state = "open") =>
        /\ liveRecording.socket = Latest
        /\ liveRecording.statusBarItem # "off"
        /\ lastOp \in {"setExample", "change"} => lastWrite = Latest

\* C35: the promise of a connectSocket keeps its first resolution, it is
\* true only for a socket that connected, and the timeout callback destroys
\* no established connection.
C35_TimeoutSparesConnected ==
    [][\A s \in Sockets :
          /\ connections[s].resolved # "pending" =>
                 connections'[s].resolved = connections[s].resolved
          /\ connections'[s].resolved = "true" =>
                 connections'[s].state \in {"open", "closing", "closed"}
          /\ (lastOp' = "connectTimeout" /\ connections[s].state = "open") =>
                 connections'[s].state = "open"]_vars

\* C36: as long as the user removes no breakpoint, the calls of
\* debugFunction for one function add at most one breakpoint in total.
C36_AtMostOneBreakpoint ==
    \A line \in StartLines : added[line] <= 1

====
